---- MODULE Spec2Model ----
(***************************************************************************)
(* A model of the Ranger traversal engine of earthboundkid/walker.         *)
(*                                                                         *)
(* The engine modelled is the latest draft in the sources: Ranger.walk,    *)
(* Ranger.Entries, Ranger.SkipDir and the derived sequences (FilesAndDirs, *)
(* FileEntries, Files, FilePaths), together with Entry (entry.go), the     *)
(* filter constructors (filters.go) and the error policies                 *)
(* (errorpolicy.go).  The provider is Go's fs.WalkDir / filepath.WalkDir,  *)
(* which Ranger.walk calls with the walkDir callback; it is modelled by    *)
(* its documented disposition protocol (nil, fs.SkipDir, fs.SkipAll).      *)
(*                                                                         *)
(* A path is a sequence of name components (naturals, enumerated in name   *)
(* order); the root "." is the empty sequence.                             *)
(***************************************************************************)
EXTENDS Naturals, Sequences, FiniteSets, TLC

VARIABLES
    fsys,          \* Ranger.fsys + Ranger.root: index of the tree being walked
    erp,           \* Ranger.erp: the ErrorPolicy ("nil" when absent)
    includeFiles,  \* Ranger.includeFiles
    excludeFiles,  \* Ranger.excludeFiles
    includeDirs,   \* Ranger.includeDirs
    excludeDirs,   \* Ranger.excludeDirs
    isWalking,     \* Ranger.isWalking
    skipDir,       \* Ranger.skipDir
    lastErr,       \* Ranger.lastErr
    errs,          \* the caller-owned slice given to OnErrorCollect
    pc,            \* "idle" | "visit" | "offered": where control is
    seq,           \* which sequence the consumer ranges over
    cur,           \* the provider's next callback: [node, kind]
    stack,         \* the provider's recursion: remaining children per open directory
    active,        \* number of walk frames that passed the guards and have not returned
    visits,        \* log of the walkDir callbacks of the current traversal
    rounds,        \* number of traversals started so far
    fatal,         \* the panic raised by the last operation, "none" if it raised none
    ended,         \* how the last traversal ended
    fq,            \* a call of And(..), Or(..), Not(..) or Entry.Dir in progress
    two,           \* two further Rangers A and B, each with its own traversal
    mq             \* a call of MatchExtension, MatchDotFile or a glob filter in progress

vars == <<fsys, erp, includeFiles, excludeFiles, includeDirs, excludeDirs,
          isWalking, skipDir, lastErr, errs, pc, seq, cur, stack, active,
          visits, rounds, fatal, ended, fq, two, mq>>

config == <<fsys, erp, includeFiles, excludeFiles, includeDirs, excludeDirs>>

\* the variables of the side specifications, which the Ranger of the main one
\* never touches
aside == <<fq, two, mq>>

\* the variables of the Ranger of the main specification and of its consumer
ranger == <<fsys, erp, includeFiles, excludeFiles, includeDirs, excludeDirs,
            isWalking, skipDir, lastErr, errs, pc, seq, cur, stack, active,
            visits, rounds, fatal, ended>>

-----------------------------------------------------------------------------
(* Bounds *)

\* Number of traversals one behaviour may start on the Ranger.
MaxRounds == 2

\* Number of filters And and Or are given at most.
MaxArgs == 3

\* Length of the paths given to MatchExtension and MatchDotFile at most.
MaxStrLen == 4

\* Length of the paths given to the glob filters at most.
MaxGlobLen == 2

\* Number of extensions or patterns a filter is made of at most.
MaxPatterns == 2

-----------------------------------------------------------------------------
(* Sequences helpers *)

Last(s) == s[Len(s)]

Front(s) == SubSeq(s, 1, Len(s) - 1)

IsPrefix(p, q) == Len(p) <= Len(q) /\ SubSeq(q, 1, Len(p)) = p

\* p lies strictly beneath directory d
Beneath(p, d) == Len(d) < Len(p) /\ IsPrefix(d, p)

-----------------------------------------------------------------------------
(* The namespace: trees the provider walks *)

NoErr == "nil"

ErrPermission == "perm"

ErrIO == "io"

Root == << >>

\* root{ 1{ 1{ 1 }, 2 }, 2, 3 }: no errors
TreeNested ==
    [dirs  |-> {Root, <<1>>, <<1, 1>>},
     files |-> {<<1, 1, 1>>, <<1, 2>>, <<2>>, <<3>>},
     rderr |-> [d \in {Root, <<1>>, <<1, 1>>} |-> NoErr],
     stat  |-> NoErr]

\* root{ 1{unreadable}, 2 }: the tree of tempDirWithPermErr
TreePerm ==
    [dirs  |-> {Root, <<1>>},
     files |-> {<<2>>},
     rderr |-> [d \in {Root, <<1>>} |-> IF d = <<1>> THEN ErrPermission ELSE NoErr],
     stat  |-> NoErr]

\* root{ 1{ReadDir fails with a partial listing: 1}, 2{unreadable}, 3 }
TreeErrs ==
    [dirs  |-> {Root, <<1>>, <<2>>},
     files |-> {<<1, 1>>, <<3>>},
     rderr |-> [d \in {Root, <<1>>, <<2>>} |->
                  IF d = <<1>> THEN ErrIO
                  ELSE IF d = <<2>> THEN ErrPermission ELSE NoErr],
     stat  |-> NoErr]

\* the root cannot be stat'ed
TreeNoRoot ==
    [dirs  |-> {},
     files |-> {},
     rderr |-> [d \in {} |-> NoErr],
     stat  |-> ErrPermission]

Trees == <<TreeNested, TreePerm, TreeErrs, TreeNoRoot>>

Nodes(t) == t.dirs \cup t.files

ChildSet(t, p) == {q \in Nodes(t) : Len(q) = Len(p) + 1 /\ IsPrefix(p, q)}

RECURSIVE SortByName(_)
SortByName(S) ==
    IF S = {} THEN << >>
    ELSE LET m == CHOOSE x \in S : \A y \in S : Last(x) <= Last(y)
         IN  <<m>> \o SortByName(S \ {m})

\* ReadDir: the entries of directory p in name order
ReadDir(t, p) == SortByName(ChildSet(t, p))

RECURSIVE PreOrderFrom(_, _)
\* the provider's depth-first pre-order of the subtree at p when nothing is skipped
PreOrderFrom(t, p) ==
    LET kids == ReadDir(t, p)
        F[i \in 0..Len(kids)] ==
            IF i = 0 THEN << >> ELSE F[i - 1] \o PreOrderFrom(t, kids[i])
    IN  <<p>> \o F[Len(kids)]

-----------------------------------------------------------------------------
(* Entry *)

\* the fs.DirEntry the provider hands to walkDir: "nil", "dir" or "file"
DirEntryOf(t, p) == IF p \in t.dirs THEN "dir" ELSE "file"

Entry(p, d) == [Path |-> p, DirEntry |-> d]

\* IsDir taking an absent DirEntry for a directory
IsDirNilIsDir(e) == e.DirEntry # "file"

IsDir(e) == IF e.DirEntry = "nil" THEN FALSE ELSE e.DirEntry = "dir"

\* path.Dir / filepath.Dir: all but the last element; "." stays "."
PathDir(p) == IF p = Root THEN Root ELSE Front(p)

\* Dir as path.Dir: the parent for directories too
DirAlwaysParent(e) == PathDir(e.Path)

Dir(e) == IF IsDir(e) THEN e.Path ELSE PathDir(e.Path)

-----------------------------------------------------------------------------
(* Filters *)

\* the names a glob such as "[13]" matches
GlobNames == {1, 3}

\* includeAll, excludeNone and MatchGlobName of a pattern matching GlobNames
FilterFuncs == {"includeAll", "excludeNone", "MatchGlobName"}

\* Not returning its argument's verdict as it is
NotIdentity(v) == v

\* the body of the filter Not(f) returns: !f(e), where v is what f(e) returned
NotOf(v) == ~v

\* the filter Not(f) returns, for each f of FilterFuncs
Not(f) ==
    CASE f = "includeAll"    -> "Not(includeAll)"
      [] f = "excludeNone"   -> "Not(excludeNone)"
      [] f = "MatchGlobName" -> "Not(MatchGlobName)"

Apply(f, e) ==
    CASE f = "includeAll"    -> TRUE
      [] f = "excludeNone"   -> FALSE
      [] f = "MatchGlobName" -> e.Path # Root /\ Last(e.Path) \in GlobNames
      [] f = "Not(includeAll)"    -> NotOf(TRUE)
      [] f = "Not(excludeNone)"   -> NotOf(FALSE)
      [] f = "Not(MatchGlobName)" ->
             NotOf(e.Path # Root /\ Last(e.Path) \in GlobNames)

\* And going on after a filter returned false
AndLoopNoStop(filters, e, i) ==
    IF i > Len(filters) THEN [called |-> FALSE, done |-> TRUE, ret |-> TRUE]
    ELSE [called |-> TRUE, done |-> FALSE, ret |-> FALSE]

\* And(filters...)(e) from its i-th filter on: one turn of the loop, or the
\* return after it.  called: whether filters[i] was called
AndLoop(filters, e, i) ==
    IF i > Len(filters) THEN [called |-> FALSE, done |-> TRUE, ret |-> TRUE]
    ELSE IF ~Apply(filters[i], e)
         THEN [called |-> TRUE, done |-> TRUE, ret |-> FALSE]
         ELSE [called |-> TRUE, done |-> FALSE, ret |-> FALSE]

\* Or going on after a filter returned true
OrLoopNoStop(filters, e, i) ==
    IF i > Len(filters) THEN [called |-> FALSE, done |-> TRUE, ret |-> FALSE]
    ELSE [called |-> TRUE, done |-> FALSE, ret |-> FALSE]

\* Or(filters...)(e) from its i-th filter on
OrLoop(filters, e, i) ==
    IF i > Len(filters) THEN [called |-> FALSE, done |-> TRUE, ret |-> FALSE]
    ELSE IF Apply(filters[i], e)
         THEN [called |-> TRUE, done |-> TRUE, ret |-> TRUE]
         ELSE [called |-> TRUE, done |-> FALSE, ret |-> FALSE]

-----------------------------------------------------------------------------
(* Filters on paths written out in characters.  A path is a sequence of
   characters; "/" separates its elements. *)

Chars == {"t", "T", ".", "/"}

\* strings.ToLower
ToLower(s) == [i \in 1..Len(s) |-> IF s[i] = "T" THEN "t" ELSE s[i]]

\* strings.HasPrefix
HasPrefix(s, prefix) ==
    Len(prefix) <= Len(s) /\ SubSeq(s, 1, Len(prefix)) = prefix

\* the position of the last c in s, 0 if there is none
LastIndex(s, c) ==
    IF \E i \in 1..Len(s) : s[i] = c
    THEN CHOOSE i \in 1..Len(s) : s[i] = c /\ \A j \in (i + 1)..Len(s) : s[j] # c
    ELSE 0

\* path.Ext: the suffix beginning at the last dot of the last element, empty
\* if there is no dot in it
PathExt(s) ==
    LET from == LastIndex(s, "/") + 1
        last == SubSeq(s, from, Len(s))
    IN  IF LastIndex(last, ".") = 0 THEN << >>
        ELSE SubSeq(last, LastIndex(last, "."), Len(last))

RECURSIVE TrimSlashes(_)
TrimSlashes(s) ==
    IF s # << >> /\ s[Len(s)] = "/" THEN TrimSlashes(SubSeq(s, 1, Len(s) - 1))
    ELSE s

\* path.Base: the last element, trailing slashes removed; "." for the empty
\* path and "/" for a path of slashes only
PathBase(s) ==
    IF s = << >> THEN <<".">>
    ELSE IF TrimSlashes(s) = << >> THEN <<"/">>
    ELSE LET t == TrimSlashes(s)
         IN  SubSeq(t, LastIndex(t, "/") + 1, Len(t))

Ext(e) == PathExt(e.Path)

Base(e) == PathBase(e.Path)

\* MatchExtension(extensions...)(e)
MatchExtension(extensions, e) ==
    \E k \in 1..Len(extensions) : ToLower(extensions[k]) = ToLower(Ext(e))

\* MatchPrefixName(prefix)(e)
MatchPrefixName(prefix, e) == HasPrefix(e.Path, prefix)

MatchDotFile(e) == MatchPrefixName(<<".">>, e)

\* a pattern filepath.Match rejects: an opening bracket that nothing closes
Malformed(pattern) == \E i \in 1..Len(pattern) : pattern[i] = "["

RECURSIVE GlobMatch(_, _)
\* filepath.Match of a well-formed pattern of literals and stars
GlobMatch(pattern, s) ==
    IF pattern = << >> THEN s = << >>
    ELSE IF Head(pattern) = "*" THEN
        \E k \in 0..Len(s) :
            /\ \A j \in 1..k : s[j] # "/"
            /\ GlobMatch(Tail(pattern), SubSeq(s, k + 1, Len(s)))
    ELSE /\ s # << >>
         /\ Head(pattern) = Head(s)
         /\ GlobMatch(Tail(pattern), Tail(s))

\* what filepath.Match(pattern, s) may return: for a malformed pattern no
\* match, with ErrBadPattern or (the mismatch found first) without
FilepathMatch(pattern, s) ==
    IF Malformed(pattern)
    THEN {[matched |-> FALSE, err |-> "ErrBadPattern"],
          [matched |-> FALSE, err |-> NoErr]}
    ELSE {[matched |-> GlobMatch(pattern, s), err |-> NoErr]}

\* a glob filter giving up at the first pattern filepath.Match rejects
GlobLoopStopsOnError(patterns, i, m) ==
    IF i > Len(patterns) THEN [done |-> TRUE, ret |-> FALSE]
    ELSE IF m.err # NoErr THEN [done |-> TRUE, ret |-> FALSE]
    ELSE IF m.matched THEN [done |-> TRUE, ret |-> TRUE]
    ELSE [done |-> FALSE, ret |-> FALSE]

\* the loop of MatchGlobPath and MatchGlobName at its i-th pattern, for which
\* filepath.Match returned m, or the return after the loop
GlobLoop(patterns, i, m) ==
    IF i > Len(patterns) THEN [done |-> TRUE, ret |-> FALSE]
    ELSE IF m.err = NoErr /\ m.matched THEN [done |-> TRUE, ret |-> TRUE]
    ELSE [done |-> FALSE, ret |-> FALSE]

-----------------------------------------------------------------------------
(* Error policies *)

Policies == {"nil", "OnErrorIgnore", "OnErrorHalt", "OnErrorPanic",
             "OnErrorCollect", "OnErrPermissionIgnore"}

\* OnErrorCollect putting the error in front of the slice
PolicyResultCollectPrepends(p, err, e, sink) ==
    CASE p = "OnErrorIgnore"  -> [cont |-> TRUE,  panics |-> FALSE, sink |-> sink]
      [] p = "OnErrorHalt"    -> [cont |-> FALSE, panics |-> FALSE, sink |-> sink]
      [] p = "OnErrorPanic"   -> [cont |-> FALSE, panics |-> TRUE,  sink |-> sink]
      [] p = "OnErrorCollect" -> [cont |-> TRUE,  panics |-> FALSE,
                                  sink |-> <<err>> \o sink]
      [] p = "OnErrPermissionIgnore" ->
             [cont |-> (err = ErrPermission), panics |-> FALSE, sink |-> sink]
      [] p = "nil"            -> [cont |-> FALSE, panics |-> TRUE,  sink |-> sink]

\* OnErrPermissionIgnore with the test inverted: it halts on fs.ErrPermission
\* and continues on any other error
PolicyResultPermInverted(p, err, e, sink) ==
    CASE p = "OnErrorIgnore"  -> [cont |-> TRUE,  panics |-> FALSE, sink |-> sink]
      [] p = "OnErrorHalt"    -> [cont |-> FALSE, panics |-> FALSE, sink |-> sink]
      [] p = "OnErrorPanic"   -> [cont |-> FALSE, panics |-> TRUE,  sink |-> sink]
      [] p = "OnErrorCollect" -> [cont |-> TRUE,  panics |-> FALSE,
                                  sink |-> Append(sink, err)]
      [] p = "OnErrPermissionIgnore" ->
             [cont |-> (err # ErrPermission), panics |-> FALSE, sink |-> sink]
      [] p = "nil"            -> [cont |-> FALSE, panics |-> TRUE,  sink |-> sink]

\* what erp(err, e) does: continue (TRUE) or halt (FALSE), whether it panics,
\* and the collector slice afterwards
PolicyResult(p, err, e, sink) ==
    CASE p = "OnErrorIgnore"  -> [cont |-> TRUE,  panics |-> FALSE, sink |-> sink]
      [] p = "OnErrorHalt"    -> [cont |-> FALSE, panics |-> FALSE, sink |-> sink]
      [] p = "OnErrorPanic"   -> [cont |-> FALSE, panics |-> TRUE,  sink |-> sink]
      [] p = "OnErrorCollect" -> [cont |-> TRUE,  panics |-> FALSE,
                                  sink |-> Append(sink, err)]
      [] p = "OnErrPermissionIgnore" ->
             [cont |-> (err = ErrPermission), panics |-> FALSE, sink |-> sink]
      \* calling a nil func value panics
      [] p = "nil"            -> [cont |-> FALSE, panics |-> TRUE,  sink |-> sink]

-----------------------------------------------------------------------------
(* Ranger: the pure parts of walk, Entries, SkipDir and the derived sequences *)

\* walk without its isWalking guard
WalkGuardNoReentry(walking, policy) ==
    IF policy = "nil" THEN "no error policy set" ELSE "none"

\* walk without its guard on a nil policy
WalkGuardNoPolicyCheck(walking, policy) ==
    IF walking THEN "already walking" ELSE "none"

\* the guards of walk: the panic it raises, "none" when it goes on
WalkGuard(walking, policy) ==
    IF walking THEN "already walking"
    ELSE IF policy = "nil" THEN "no error policy set"
    ELSE "none"

\* SkipDir without its guard, as in the earlier drafts of Ranger
SkipDirUnguarded(walking) == "none"

\* the guard of SkipDir
SkipDirGuard(walking) ==
    IF ~walking THEN "SkipDir called when not iterating" ELSE "none"

HasError(le) == le # NoErr

DirFiltersExclude(exD, inD, e) == Apply(exD, e) \/ ~Apply(inD, e)

\* the file filters with Include taking precedence: an entry matched by Include
\* is kept whatever Exclude says
FileFiltersIncludeWins(exF, inF, e) == ~Apply(inF, e)

FileFiltersExclude(exF, inF, e) == Apply(exF, e) \/ ~Apply(inF, e)

\* the switch without its second case: an excluded directory is withheld but
\* SkipDir is not called
DirSwitchNoPrune(e, exD, inD) ==
    IF Dir(e) = Root /\ DirFiltersExclude(exD, inD, e) THEN "continue"
    ELSE IF IsDir(e) /\ DirFiltersExclude(exD, inD, e) THEN "continue"
    ELSE "pass"

\* the first case taken for every file, not only for those directly in the root
DirSwitchAnyFile(e, exD, inD) ==
    IF (Dir(e) = Root \/ ~IsDir(e)) /\ DirFiltersExclude(exD, inD, e) THEN "continue"
    ELSE IF IsDir(e) /\ DirFiltersExclude(exD, inD, e) THEN "skip"
    ELSE "pass"

\* the first case calling SkipDir as the second does
DirSwitchRootPrunes(e, exD, inD) ==
    IF Dir(e) = Root /\ DirFiltersExclude(exD, inD, e) THEN "skip"
    ELSE IF IsDir(e) /\ DirFiltersExclude(exD, inD, e) THEN "skip"
    ELSE "pass"

\* the switch of Entries on the directory filters:
\* "continue" (withheld), "skip" (SkipDir, then withheld) or "pass"
DirSwitch(e, exD, inD) ==
    IF Dir(e) = Root /\ DirFiltersExclude(exD, inD, e) THEN "continue"
    ELSE IF IsDir(e) /\ DirFiltersExclude(exD, inD, e) THEN "skip"
    ELSE "pass"

\* the file filters applied to files only: a directory that passes the switch
\* is yielded whatever Include and Exclude say
EntriesFiltersFilesOnly(e, exD, inD, exF, inF, sink) ==
    IF DirSwitch(e, exD, inD) = "continue" THEN
        [act |-> "continue", skip |-> FALSE, policy |-> FALSE, sink |-> sink]
    ELSE IF DirSwitch(e, exD, inD) = "skip" THEN
        [act |-> "continue", skip |-> TRUE, policy |-> FALSE, sink |-> sink]
    ELSE IF ~IsDir(e) /\ FileFiltersExclude(exF, inF, e) THEN
        [act |-> "continue", skip |-> FALSE, policy |-> FALSE, sink |-> sink]
    ELSE
        [act |-> "yield", skip |-> FALSE, policy |-> FALSE, sink |-> sink]

\* the loop body of Entries for an entry whose visit carried no error: the
\* switch on the directory filters, the file filters, the yield
EntriesFilters(e, exD, inD, exF, inF, sink) ==
    IF DirSwitch(e, exD, inD) = "continue" THEN
        [act |-> "continue", skip |-> FALSE, policy |-> FALSE, sink |-> sink]
    ELSE IF DirSwitch(e, exD, inD) = "skip" THEN
        [act |-> "continue", skip |-> TRUE, policy |-> FALSE, sink |-> sink]
    ELSE IF FileFiltersExclude(exF, inF, e) THEN
        [act |-> "continue", skip |-> FALSE, policy |-> FALSE, sink |-> sink]
    ELSE
        [act |-> "yield", skip |-> FALSE, policy |-> FALSE, sink |-> sink]

\* Entries going on with the next entry when the policy returns false
EntriesBodyIgnoresHalt(e, le, policy, exD, inD, exF, inF, sink) ==
    IF HasError(le) THEN
        LET r == PolicyResult(policy, le, e, sink)
        IN  [act    |-> IF r.panics THEN "panic" ELSE "continue",
             skip   |-> FALSE, policy |-> TRUE, sink |-> r.sink]
    ELSE EntriesFilters(e, exD, inD, exF, inF, sink)

\* Entries calling SkipDir for an entry whose error the policy let pass
EntriesBodySkipsOnError(e, le, policy, exD, inD, exF, inF, sink) ==
    IF HasError(le) THEN
        LET r == PolicyResult(policy, le, e, sink)
        IN  [act    |-> IF r.panics THEN "panic"
                        ELSE IF r.cont THEN "continue" ELSE "halt",
             skip   |-> r.cont, policy |-> TRUE, sink |-> r.sink]
    ELSE EntriesFilters(e, exD, inD, exF, inF, sink)

\* Entries without the continue after the policy let an error pass: the
\* errored entry goes through the filters like any other
EntriesBodyYieldsErrored(e, le, policy, exD, inD, exF, inF, sink) ==
    IF HasError(le) THEN
        LET r == PolicyResult(policy, le, e, sink)
        IN  IF r.panics \/ ~r.cont
            THEN [act    |-> IF r.panics THEN "panic" ELSE "halt",
                  skip   |-> FALSE, policy |-> TRUE, sink |-> r.sink]
            ELSE [EntriesFilters(e, exD, inD, exF, inF, r.sink)
                      EXCEPT !.policy = TRUE]
    ELSE EntriesFilters(e, exD, inD, exF, inF, sink)

\* Entries consulting the filters before the error: an errored entry the
\* filters withhold never reaches the policy
EntriesBodyFiltersFirst(e, le, policy, exD, inD, exF, inF, sink) ==
    IF EntriesFilters(e, exD, inD, exF, inF, sink).act = "continue"
    THEN EntriesFilters(e, exD, inD, exF, inF, sink)
    ELSE IF HasError(le) THEN
        LET r == PolicyResult(policy, le, e, sink)
        IN  [act    |-> IF r.panics THEN "panic"
                        ELSE IF r.cont THEN "continue" ELSE "halt",
             skip   |-> FALSE, policy |-> TRUE, sink |-> r.sink]
    ELSE EntriesFilters(e, exD, inD, exF, inF, sink)

\* one iteration of the loop body of Entries on entry e with tr.lastErr = le:
\*   act    "panic" | "halt" (return) | "continue" | "yield"
\*   skip   whether tr.SkipDir() was called
\*   policy whether tr.erp was invoked
\*   sink   the collector slice afterwards
EntriesBody(e, le, policy, exD, inD, exF, inF, sink) ==
    IF HasError(le) THEN
        LET r == PolicyResult(policy, le, e, sink)
        IN  [act    |-> IF r.panics THEN "panic"
                        ELSE IF r.cont THEN "continue" ELSE "halt",
             skip   |-> FALSE, policy |-> TRUE, sink |-> r.sink]
    ELSE EntriesFilters(e, exD, inD, exF, inF, sink)

SeqKinds == {"Entries", "FilesAndDirs", "FileEntries", "Files", "FilePaths"}

\* Files without its test on de.IsDir(): Files and FilePaths hand directories on
DeliversFilesKeepDirs(s, e) ==
    CASE s = "Entries"      -> TRUE
      [] s = "FilesAndDirs" -> TRUE
      [] s = "FileEntries"  -> ~IsDir(e)
      [] s = "Files"        -> TRUE
      [] s = "FilePaths"    -> TRUE

\* whether the sequence s hands an entry yielded by Entries on to its consumer
\* (FileEntries, Files and FilePaths pass directories over and go on)
Delivers(s, e) ==
    CASE s = "Entries"      -> TRUE
      [] s = "FilesAndDirs" -> TRUE
      [] s = "FileEntries"  -> ~IsDir(e)
      [] s = "Files"        -> ~IsDir(e)
      [] s = "FilePaths"    -> ~IsDir(e)

\* what the sequence s hands to its consumer for an entry: the Entry, the
\* pair (path, DirEntry) or the path
Project(s, e) ==
    CASE s = "Entries"      -> e
      [] s = "FileEntries"  -> e
      [] s = "FilesAndDirs" -> <<e.Path, e.DirEntry>>
      [] s = "Files"        -> <<e.Path, e.DirEntry>>
      [] s = "FilePaths"    -> e.Path

\* walkDir keeping the last error when a visit carries none
WalkDirStoreSticky(path, d, err, old) ==
    [Path |-> path, DirEntry |-> d, lastErr |-> IF err # NoErr THEN err ELSE old]

\* walkDir not storing the error of the visit
WalkDirStoreDropsErr(path, d, err, old) ==
    [Path |-> path, DirEntry |-> d, lastErr |-> old]

\* the first line of walkDir: e.Path, e.DirEntry, tr.lastErr = path, d, err
\* (old is tr.lastErr before the assignment)
WalkDirStore(path, d, err, old) ==
    [Path |-> path, DirEntry |-> d, lastErr |-> err]

\* yield putting the entry aside for the consumer and returning at once
YieldBuffers(out) == FALSE

\* yield(e) is a call: when the entry goes to the consumer (out), the loop body
\* runs before the walk does anything else
YieldWaits(out) == out

\* walkDir ignoring that yield returned false
WalkDirReturnNoAbort(yieldOk, flag) ==
    IF flag THEN [disp |-> "SkipDir", skipDir |-> FALSE]
    ELSE [disp |-> "nil", skipDir |-> FALSE]

\* walkDir clearing the flag without returning fs.SkipDir
WalkDirReturnNoSkip(yieldOk, flag) ==
    IF ~yieldOk THEN [disp |-> "SkipAll", skipDir |-> flag]
    ELSE [disp |-> "nil", skipDir |-> FALSE]

\* walkDir after yield returned: the disposition handed to the provider and
\* the skipDir flag afterwards
WalkDirReturn(yieldOk, flag) ==
    IF ~yieldOk THEN [disp |-> "SkipAll", skipDir |-> flag]
    ELSE IF flag THEN [disp |-> "SkipDir", skipDir |-> FALSE]
    ELSE [disp |-> "nil", skipDir |-> FALSE]

-----------------------------------------------------------------------------
(* The provider: fs.WalkDir as called by Ranger.walk *)

\* the first callback of WalkDir(root)
FirstCallback(t) ==
    IF t.stat # NoErr THEN [node |-> Root, kind |-> "stat"]
    ELSE [node |-> Root, kind |-> "first"]

\* the arguments (d, err) of a callback
CallbackArgs(t, c) ==
    CASE c.kind = "stat"    -> [d |-> "nil", err |-> t.stat]
      [] c.kind = "first"   -> [d |-> DirEntryOf(t, c.node), err |-> NoErr]
      [] c.kind = "readdir" -> [d |-> DirEntryOf(t, c.node), err |-> t.rderr[c.node]]

NoCallback == [node |-> Root, kind |-> "none"]

RECURSIVE Advance(_)
\* go on with the innermost directory loop that has an entry left
Advance(st) ==
    IF st = << >> THEN [done |-> TRUE, cur |-> NoCallback, stack |-> << >>]
    ELSE IF Last(st) = << >> THEN Advance(Front(st))
    ELSE [done  |-> FALSE,
          cur   |-> [node |-> Head(Last(st)), kind |-> "first"],
          stack |-> Append(Front(st), Tail(Last(st)))]

Finished == [done |-> TRUE, cur |-> NoCallback, stack |-> << >>]

\* a provider that honours fs.SkipDir for every directory but the root
ProviderNextRootUnskippable(t, st, c, disp) ==
    IF disp = "SkipAll" THEN Finished
    ELSE IF c.kind = "stat" THEN Finished
    ELSE IF c.kind = "first" /\ c.node \in t.dirs THEN
        IF disp = "SkipDir" /\ c.node # Root THEN Advance(st)
        ELSE IF t.rderr[c.node] # NoErr
             THEN [done |-> FALSE, cur |-> [node |-> c.node, kind |-> "readdir"],
                   stack |-> st]
             ELSE Advance(Append(st, ReadDir(t, c.node)))
    ELSE IF c.kind = "first" THEN
        \* a file: SkipDir leaves the loop of the containing directory
        IF disp = "SkipDir"
        THEN (IF st = << >> THEN Finished ELSE Advance(Front(st)))
        ELSE Advance(st)
    ELSE
        \* the second callback of a directory whose ReadDir failed
        IF disp = "SkipDir" THEN Advance(st)
        ELSE Advance(Append(st, ReadDir(t, c.node)))

\* what the provider does after callback c returned disp
ProviderNext(t, st, c, disp) ==
    IF disp = "SkipAll" THEN Finished
    ELSE IF c.kind = "stat" THEN Finished
    ELSE IF c.kind = "first" /\ c.node \in t.dirs THEN
        IF disp = "SkipDir" THEN Advance(st)
        ELSE IF t.rderr[c.node] # NoErr
             THEN [done |-> FALSE, cur |-> [node |-> c.node, kind |-> "readdir"],
                   stack |-> st]
             ELSE Advance(Append(st, ReadDir(t, c.node)))
    ELSE IF c.kind = "first" THEN
        \* a file: SkipDir leaves the loop of the containing directory
        IF disp = "SkipDir"
        THEN (IF st = << >> THEN Finished ELSE Advance(Front(st)))
        ELSE Advance(st)
    ELSE
        \* the second callback of a directory whose ReadDir failed
        IF disp = "SkipDir" THEN Advance(st)
        ELSE Advance(Append(st, ReadDir(t, c.node)))

-----------------------------------------------------------------------------
(* The state machine *)

Tree == Trees[fsys]

\* no call of a filter on a path written out in characters made yet
NoMatch ==
    [op |-> "none", args |-> << >>, e |-> Entry(<<".">>, "dir"),
     name |-> <<".">>, i |-> 1, done |-> TRUE, ret |-> FALSE]

\* no call of a filter combinator or of Entry.Dir made yet
NoQuery ==
    [op |-> "none", filters |-> << >>, e |-> Entry(Root, "nil"), i |-> 1,
     calls |-> << >>, done |-> TRUE, ret |-> FALSE, dir |-> Root]

Rangers == {"A", "B"}

\* a Ranger as New returns it (other: made over another tree than the main
\* Ranger's), with the provider and the consumer of the traversal it may run:
\*   offered  the entries its running or last traversal yielded
\*   starts   how often it was ranged over
\*   pruned   whether its consumer ever called SkipDir on it
NewRanger ==
    [other |-> FALSE, isWalking |-> FALSE, skipDir |-> FALSE, lastErr |-> NoErr,
     pc |-> "idle", cur |-> NoCallback, stack |-> << >>,
     offered |-> << >>, starts |-> 0, pruned |-> FALSE,
     fatal |-> "none", ended |-> "none"]

Init ==
    /\ fsys \in 1..Len(Trees)
    /\ erp \in Policies
    /\ includeFiles = "includeAll"
    /\ excludeFiles = "excludeNone"
    /\ includeDirs = "includeAll"
    /\ excludeDirs = "excludeNone"
    /\ isWalking = FALSE
    /\ skipDir = FALSE
    /\ lastErr = NoErr
    /\ errs = << >>
    /\ pc = "idle"
    /\ seq = "none"
    /\ cur = NoCallback
    /\ stack = << >>
    /\ active = 0
    /\ visits = << >>
    /\ rounds = 0
    /\ fatal = "none"
    /\ ended = "none"
    /\ fq = NoQuery
    /\ two = [r \in Rangers |-> NewRanger]
    /\ mq = NoMatch

\* The mutators: called between traversals.  The log of the last traversal is
\* dropped with the configuration it ran under.  (Calling a mutator while a
\* traversal is in flight is forbidden by the documentation and not modelled.)
Reconfigured ==
    /\ pc = "idle"
    /\ visits' = << >>
    /\ fatal' = "none"
    /\ UNCHANGED <<fsys, erp, isWalking, skipDir, lastErr, errs, pc, seq, cur,
                   stack, active, rounds, ended, aside>>

Include(f) ==
    /\ includeFiles' = f
    /\ Reconfigured
    /\ UNCHANGED <<excludeFiles, includeDirs, excludeDirs>>

Exclude(f) ==
    /\ excludeFiles' = f
    /\ Reconfigured
    /\ UNCHANGED <<includeFiles, includeDirs, excludeDirs>>

IncludeDir(f) ==
    /\ includeDirs' = f
    /\ Reconfigured
    /\ UNCHANGED <<includeFiles, excludeFiles, excludeDirs>>

ExcludeDir(f) ==
    /\ excludeDirs' = f
    /\ Reconfigured
    /\ UNCHANGED <<includeFiles, excludeFiles, includeDirs>>

\* walk, from its guards to the provider's first callback.  A panic unwinds
\* the traversal the call was made from (if any) without running the last
\* line of its walk.
Walk(s) ==
    LET g == WalkGuard(isWalking, erp) IN
    /\ rounds < MaxRounds
    /\ rounds' = rounds + 1
    /\ IF g # "none"
       THEN /\ fatal' = g
            /\ pc' = "idle"
            /\ ended' = IF pc = "offered" THEN "panic" ELSE ended
            /\ active' = IF pc = "offered" THEN active - 1 ELSE active
            /\ seq' = "none"
            /\ cur' = NoCallback
            /\ stack' = << >>
            /\ UNCHANGED <<isWalking, visits>>
       ELSE /\ fatal' = "none"
            /\ isWalking' = TRUE
            /\ active' = active + 1
            /\ seq' = s
            /\ cur' = FirstCallback(Tree)
            /\ stack' = << >>
            /\ visits' = << >>
            /\ pc' = "visit"
            /\ ended' = "running"
    /\ UNCHANGED <<config, aside, skipDir, lastErr, errs>>

\* ranging over one of the sequences when no traversal is running
Start(s) ==
    /\ pc = "idle"
    /\ Walk(s)

\* ranging over one of the sequences from inside the loop body of another
NestedStart(s) ==
    /\ pc = "offered"
    /\ Walk(s)

\* walk leaving isWalking set when the provider returns
ProceedKeepsWalking(r, how) ==
    LET n == ProviderNext(Tree, stack, cur, r.disp) IN
    /\ skipDir' = r.skipDir
    /\ IF n.done
       THEN /\ active' = active - 1
            /\ pc' = "idle"
            /\ ended' = how
            /\ seq' = "none"
            /\ cur' = NoCallback
            /\ stack' = << >>
            /\ UNCHANGED isWalking
       ELSE /\ pc' = "visit"
            /\ cur' = n.cur
            /\ stack' = n.stack
            /\ UNCHANGED <<isWalking, active, ended, seq>>

\* walkDir returns r to the provider, which makes its next callback or ends
\* the walk; walk then clears isWalking.
Proceed(r, how) ==
    LET n == ProviderNext(Tree, stack, cur, r.disp) IN
    /\ skipDir' = r.skipDir
    /\ IF n.done
       THEN /\ isWalking' = FALSE
            /\ active' = active - 1
            /\ pc' = "idle"
            /\ ended' = how
            /\ seq' = "none"
            /\ cur' = NoCallback
            /\ stack' = << >>
       ELSE /\ pc' = "visit"
            /\ cur' = n.cur
            /\ stack' = n.stack
            /\ UNCHANGED <<isWalking, active, ended, seq>>

\* The log keeps, per callback: the node, the kind of callback, the DirEntry and
\* error handed over, the skipDir flag when the callback was made, whether the
\* policy was invoked and with which error and Entry (perr, pentry), the length
\* of the collector slice before the callback (sink0), whether Entries yielded
\* the entry (offered) and whether
\* the consumer got it (delivered), whether the consumer called SkipDir on it
\* (pruned), the consumer's reply and the disposition walkDir returned.
\*
\* One callback of the provider: walkDir stores the arguments and yields the
\* entry to the loop body of Entries, which either hands it on to the consumer
\* (control stays there: "offered") or decides itself.
Visit ==
    /\ pc = "visit"
    /\ LET a    == CallbackArgs(Tree, cur)
           w    == WalkDirStore(cur.node, a.d, a.err, lastErr)
           e    == Entry(w.Path, w.DirEntry)
           b    == EntriesBody(e, w.lastErr, erp, excludeDirs, includeDirs,
                               excludeFiles, includeFiles, errs)
           flag == IF b.skip /\ SkipDirGuard(isWalking) = "none" THEN TRUE ELSE skipDir
           out  == b.act = "yield" /\ Delivers(seq, e)
           r    == WalkDirReturn(b.act \in {"continue", "yield"}, flag)
           rec  == [node |-> cur.node, kind |-> cur.kind, d |-> a.d, err |-> a.err,
                    flag |-> skipDir, policy |-> b.policy,
                    perr |-> IF b.policy THEN w.lastErr ELSE NoErr,
                    pentry |-> IF b.policy THEN e ELSE Entry(Root, "nil"),
                    sink0 |-> Len(errs),
                    offered |-> b.act = "yield", delivered |-> out,
                    pruned |-> FALSE,
                    reply |-> IF out THEN "pending" ELSE "none",
                    disp |-> IF out THEN "pending"
                             ELSE IF b.act = "panic" THEN "panic" ELSE r.disp]
       IN
       /\ lastErr' = w.lastErr
       /\ errs' = b.sink
       /\ visits' = Append(visits, rec)
       /\ IF b.act = "panic"
          THEN /\ fatal' = "policy panic"
               /\ pc' = "idle"
               /\ ended' = "panic"
               /\ active' = active - 1
               /\ seq' = "none"
               /\ cur' = NoCallback
               /\ stack' = << >>
               /\ UNCHANGED <<isWalking, skipDir>>
          ELSE IF b.skip /\ SkipDirGuard(isWalking) # "none"
          THEN /\ fatal' = SkipDirGuard(isWalking)
               /\ pc' = "idle"
               /\ ended' = "panic"
               /\ active' = active - 1
               /\ seq' = "none"
               /\ cur' = NoCallback
               /\ stack' = << >>
               /\ UNCHANGED <<isWalking, skipDir>>
          ELSE IF YieldWaits(out)
          THEN /\ pc' = "offered"
               /\ fatal' = "none"
               /\ UNCHANGED <<isWalking, skipDir, cur, stack, active, ended, seq>>
          ELSE /\ fatal' = "none"
               /\ Proceed(r, IF b.act = "halt" THEN "halt" ELSE "exhausted")
    /\ UNCHANGED <<config, aside, rounds>>

SetLast(s, f, v) == [s EXCEPT ![Len(s)] = [@ EXCEPT ![f] = v]]

\* the consumer calls tr.SkipDir() while it considers the offered entry
ConsumerSkipDir ==
    /\ pc = "offered"
    /\ IF SkipDirGuard(isWalking) = "none"
       THEN /\ skipDir' = TRUE
            /\ visits' = SetLast(visits, "pruned", TRUE)
            /\ UNCHANGED <<pc, fatal, ended, active, seq, cur, stack>>
       ELSE /\ fatal' = SkipDirGuard(isWalking)
            /\ pc' = "idle"
            /\ ended' = "panic"
            /\ active' = active - 1
            /\ seq' = "none"
            /\ cur' = NoCallback
            /\ stack' = << >>
            /\ UNCHANGED <<skipDir, visits>>
    /\ UNCHANGED <<config, aside, isWalking, lastErr, errs, rounds>>

\* the loop body ends normally: yield returns true all the way down to walkDir
ConsumerContinue ==
    /\ pc = "offered"
    /\ LET r == WalkDirReturn(TRUE, skipDir) IN
       /\ visits' = SetLast(SetLast(visits, "disp", r.disp), "reply", "continue")
       /\ Proceed(r, "exhausted")
    /\ fatal' = "none"
    /\ UNCHANGED <<config, aside, lastErr, errs, rounds>>

\* the consumer breaks out of the loop: yield returns false all the way down
ConsumerBreak ==
    /\ pc = "offered"
    /\ LET r == WalkDirReturn(FALSE, skipDir) IN
       /\ visits' = SetLast(SetLast(visits, "disp", r.disp), "reply", "break")
       /\ Proceed(r, "break")
    /\ fatal' = "none"
    /\ UNCHANGED <<config, aside, lastErr, errs, rounds>>

\* the loop body panics and the caller recovers: every frame of the traversal
\* is unwound, the last line of walk is not run
ConsumerPanic ==
    /\ pc = "offered"
    /\ pc' = "idle"
    /\ fatal' = "consumer panic"
    /\ ended' = "panic"
    /\ active' = active - 1
    /\ visits' = SetLast(SetLast(visits, "disp", "panic"), "reply", "panic")
    /\ seq' = "none"
    /\ cur' = NoCallback
    /\ stack' = << >>
    /\ UNCHANGED <<config, aside, isWalking, skipDir, lastErr, errs, rounds>>

\* tr.SkipDir() called while no loop body is running
IdleSkipDir ==
    /\ pc = "idle"
    /\ IF SkipDirGuard(isWalking) = "none"
       THEN /\ skipDir' = TRUE
            /\ fatal' = "none"
       ELSE /\ fatal' = SkipDirGuard(isWalking)
            /\ UNCHANGED skipDir
    /\ UNCHANGED <<config, aside, isWalking, lastErr, errs, pc, seq, cur, stack, active,
                   visits, rounds, ended>>

Next ==
    \/ \E f \in FilterFuncs : Include(f)
    \/ \E f \in FilterFuncs : Exclude(f)
    \/ \E f \in FilterFuncs : IncludeDir(f)
    \/ \E f \in FilterFuncs : ExcludeDir(f)
    \/ \E s \in SeqKinds : Start(s)
    \/ \E s \in SeqKinds : NestedStart(s)
    \/ Visit
    \/ ConsumerSkipDir
    \/ ConsumerContinue
    \/ ConsumerBreak
    \/ ConsumerPanic
    \/ IdleSkipDir

Spec == Init /\ [][Next]_vars

-----------------------------------------------------------------------------
(* The filter combinators and Entry.Dir, called on their own: one call per
   behaviour, on any arguments *)

\* the Entry values the walk of the present tree hands to filters
EntryInputs ==
    {Entry(p, DirEntryOf(Tree, p)) : p \in Nodes(Tree)} \cup {Entry(Root, "nil")}

\* the argument lists of And and Or
FilterLists == UNION {[1..n -> FilterFuncs] : n \in 0..MaxArgs}

\* And(filters...)(e) or Or(filters...)(e) is called
CallCombinator(op, filters, e) ==
    /\ fq = NoQuery
    /\ fq' = [NoQuery EXCEPT !.op = op, !.filters = filters, !.e = e,
                             !.done = FALSE]
    /\ UNCHANGED <<ranger, two, mq>>

\* one turn of the loop of And, or its return
AndStep ==
    /\ fq.op = "And"
    /\ ~fq.done
    /\ LET r == AndLoop(fq.filters, fq.e, fq.i)
       IN  fq' = [fq EXCEPT !.calls = IF r.called THEN Append(@, fq.i) ELSE @,
                            !.i = IF r.called THEN @ + 1 ELSE @,
                            !.done = r.done, !.ret = r.ret]
    /\ UNCHANGED <<ranger, two, mq>>

\* one turn of the loop of Or, or its return
OrStep ==
    /\ fq.op = "Or"
    /\ ~fq.done
    /\ LET r == OrLoop(fq.filters, fq.e, fq.i)
       IN  fq' = [fq EXCEPT !.calls = IF r.called THEN Append(@, fq.i) ELSE @,
                            !.i = IF r.called THEN @ + 1 ELSE @,
                            !.done = r.done, !.ret = r.ret]
    /\ UNCHANGED <<ranger, two, mq>>

\* Not(f)(e)
CallNot(f, e) ==
    /\ fq = NoQuery
    /\ fq' = [NoQuery EXCEPT !.op = "Not", !.filters = <<f>>, !.e = e,
                             !.calls = <<1>>, !.i = 2,
                             !.ret = Apply(Not(f), e)]
    /\ UNCHANGED <<ranger, two, mq>>

\* Not(Not(f))(e)
CallNotNot(f, e) ==
    /\ fq = NoQuery
    /\ fq' = [NoQuery EXCEPT !.op = "NotNot", !.filters = <<f>>, !.e = e,
                             !.calls = <<1>>, !.i = 2,
                             !.ret = NotOf(Apply(Not(f), e))]
    /\ UNCHANGED <<ranger, two, mq>>

\* e.Dir()
CallDir(e) ==
    /\ fq = NoQuery
    /\ fq' = [NoQuery EXCEPT !.op = "Dir", !.e = e, !.dir = Dir(e)]
    /\ UNCHANGED <<ranger, two, mq>>

FilterNext ==
    \/ \E op \in {"And", "Or"}, filters \in FilterLists, e \in EntryInputs :
           CallCombinator(op, filters, e)
    \/ AndStep
    \/ OrStep
    \/ \E f \in FilterFuncs, e \in EntryInputs : CallNot(f, e)
    \/ \E f \in FilterFuncs, e \in EntryInputs : CallNotNot(f, e)
    \/ \E e \in EntryInputs : CallDir(e)

FilterSpec == Init /\ [][FilterNext]_vars

-----------------------------------------------------------------------------
(* The filters on names and extensions, called on their own: one call per
   behaviour, on any path of characters *)

\* the strings over an alphabet up to a length
Strings(alphabet, n) == UNION {[1..k -> alphabet] : k \in 1..n}

\* the argument lists over a set of strings
Lists(strings) == UNION {[1..k -> strings] : k \in 0..MaxPatterns}

PathInputs == {Entry(p, d) : p \in Strings(Chars, MaxStrLen), d \in {"dir", "file"}}

GlobInputs == {Entry(p, d) : p \in Strings(Chars, MaxGlobLen), d \in {"dir", "file"}}

ExtensionInputs == {<<".", "t">>, <<".", "T">>, <<"t">>}

PatternInputs == {<<"t">>, <<"*">>, <<"[">>, <<"*", "[">>}

\* the names a DirEntry may report: one path element
NameInputs == Strings(Chars \ {"/"}, MaxGlobLen)

\* the string a glob filter matches its patterns against: e.Path or e.Name()
Subject(q) == IF q.op = "MatchGlobPath" THEN q.e.Path ELSE q.name

CallMatchExtension(extensions, e) ==
    /\ mq = NoMatch
    /\ mq' = [NoMatch EXCEPT !.op = "MatchExtension", !.args = extensions,
                             !.e = e, !.ret = MatchExtension(extensions, e)]
    /\ UNCHANGED <<ranger, fq, two>>

CallMatchDotFile(e) ==
    /\ mq = NoMatch
    /\ mq' = [NoMatch EXCEPT !.op = "MatchDotFile", !.e = e,
                             !.ret = MatchDotFile(e)]
    /\ UNCHANGED <<ranger, fq, two>>

\* MatchGlobPath(patterns...)(e) is called
CallMatchGlobPath(patterns, e) ==
    /\ mq = NoMatch
    /\ mq' = [NoMatch EXCEPT !.op = "MatchGlobPath", !.args = patterns,
                             !.e = e, !.done = FALSE]
    /\ UNCHANGED <<ranger, fq, two>>

\* MatchGlobName(patterns...)(e) is called on an Entry of the top level, whose
\* path is the name its DirEntry reports
CallMatchGlobName(patterns, name, d) ==
    /\ mq = NoMatch
    /\ mq' = [NoMatch EXCEPT !.op = "MatchGlobName", !.args = patterns,
                             !.e = Entry(name, d), !.name = name,
                             !.done = FALSE]
    /\ UNCHANGED <<ranger, fq, two>>

\* one turn of the loop of a glob filter, or its return
GlobStep ==
    /\ mq.op \in {"MatchGlobPath", "MatchGlobName"}
    /\ ~mq.done
    /\ \E m \in (IF mq.i > Len(mq.args)
                  THEN {[matched |-> FALSE, err |-> NoErr]}
                  ELSE FilepathMatch(mq.args[mq.i], Subject(mq))) :
           LET r == GlobLoop(mq.args, mq.i, m)
           IN  mq' = [mq EXCEPT !.i = IF r.done THEN @ ELSE @ + 1,
                                !.done = r.done, !.ret = r.ret]
    /\ UNCHANGED <<ranger, fq, two>>

\* a filter is called once; the loop of a glob filter then runs to its return
MatchNext ==
    \/ /\ mq = NoMatch
       /\ \E extensions \in Lists(ExtensionInputs), e \in PathInputs :
              CallMatchExtension(extensions, e)
    \/ /\ mq = NoMatch
       /\ \E e \in PathInputs : CallMatchDotFile(e)
    \/ /\ mq = NoMatch
       /\ \E patterns \in Lists(PatternInputs), e \in GlobInputs :
              CallMatchGlobPath(patterns, e)
    \/ /\ mq = NoMatch
       /\ \E patterns \in Lists(PatternInputs), name \in NameInputs,
             d \in {"dir", "file"} :
              CallMatchGlobName(patterns, name, d)
    \/ GlobStep

\* one Ranger suffices: the filters do not look at it
MatchInit == Init /\ fsys = 1 /\ erp = "OnErrorHalt"

MatchSpec == MatchInit /\ [][MatchNext]_vars

-----------------------------------------------------------------------------
(* Two Rangers with the main Ranger's policy and filters, their steps
   interleaved in any order.  A is ranged over up to MaxRounds times by a
   consumer that may call SkipDir and break; B is ranged over once, at any
   moment of A's life, by a consumer that takes every entry. *)

\* how often Ranger r is ranged over at most
StartsOf(r) == IF r = "A" THEN MaxRounds ELSE 1

\* a flag isWalking that all Rangers share
IsWalkingShared(st, r) == \E q \in DOMAIN st : st[q].isWalking

\* tr.isWalking: a field of the Ranger the method is called on
IsWalkingOf(st, r) == st[r].isWalking

OtherFsys == (fsys % Len(Trees)) + 1

\* tree, policy and filters of Ranger r
ConfigOf(r) ==
    [tree |-> Trees[IF two[r].other THEN OtherFsys ELSE fsys], erp |-> erp,
     excludeDirs |-> excludeDirs, includeDirs |-> includeDirs,
     excludeFiles |-> excludeFiles, includeFiles |-> includeFiles]

\* r is made anew, over another tree
TwoNew(r) ==
    /\ two[r] = NewRanger
    /\ two' = [two EXCEPT ![r].other = TRUE]
    /\ UNCHANGED <<ranger, fq, mq>>

\* Entries of Ranger r is ranged over while r has no loop body running: walk
\* up to the provider's first callback
TwoStart(r) ==
    LET t == two[r]
        g == WalkGuard(IsWalkingOf(two, r), erp)
    IN  /\ t.pc = "idle"
        /\ t.starts < StartsOf(r)
        /\ two' = [two EXCEPT ![r] =
                IF g # "none"
                THEN [t EXCEPT !.fatal = g, !.starts = @ + 1]
                ELSE [t EXCEPT !.fatal = "none", !.starts = @ + 1,
                               !.isWalking = TRUE,
                               !.cur = FirstCallback(ConfigOf(r).tree),
                               !.stack = << >>, !.offered = << >>,
                               !.pc = "visit", !.ended = "running"]]
        /\ UNCHANGED <<ranger, fq, mq>>

\* Ranger t after walkDir returned rr to its provider
ProceedOf(t, tree, rr, how) ==
    LET n == ProviderNext(tree, t.stack, t.cur, rr.disp) IN
    IF n.done
    THEN [t EXCEPT !.skipDir = rr.skipDir, !.isWalking = FALSE, !.pc = "idle",
                   !.ended = how, !.cur = NoCallback, !.stack = << >>]
    ELSE [t EXCEPT !.skipDir = rr.skipDir, !.pc = "visit",
                   !.cur = n.cur, !.stack = n.stack]

\* one callback of r's provider
TwoVisit(r) ==
    LET t    == two[r]
        g    == ConfigOf(r)
        a    == CallbackArgs(g.tree, t.cur)
        w    == WalkDirStore(t.cur.node, a.d, a.err, t.lastErr)
        e    == Entry(w.Path, w.DirEntry)
        b    == EntriesBody(e, w.lastErr, g.erp, g.excludeDirs, g.includeDirs,
                            g.excludeFiles, g.includeFiles, << >>)
        sg   == SkipDirGuard(IsWalkingOf(two, r))
        flag == IF b.skip /\ sg = "none" THEN TRUE ELSE t.skipDir
        rr   == WalkDirReturn(b.act \in {"continue", "yield"}, flag)
        u    == [t EXCEPT !.lastErr = w.lastErr]
        dead == [u EXCEPT !.pc = "idle", !.ended = "panic",
                          !.cur = NoCallback, !.stack = << >>]
    IN  /\ t.pc = "visit"
        /\ two' = [two EXCEPT ![r] =
                IF b.act = "panic" THEN [dead EXCEPT !.fatal = "policy panic"]
                ELSE IF b.skip /\ sg # "none" THEN [dead EXCEPT !.fatal = sg]
                ELSE IF YieldWaits(b.act = "yield")
                THEN [u EXCEPT !.pc = "offered", !.offered = Append(@, e)]
                ELSE ProceedOf(u, g.tree, rr,
                               IF b.act = "halt" THEN "halt" ELSE "exhausted")]
        /\ UNCHANGED <<ranger, fq, mq>>

\* r's consumer calls r.SkipDir() on the offered entry
TwoSkipDir(r) ==
    LET t  == two[r]
        sg == SkipDirGuard(IsWalkingOf(two, r))
    IN  /\ r = "A"
        /\ t.pc = "offered"
        /\ two' = [two EXCEPT ![r] =
                IF sg = "none"
                THEN [t EXCEPT !.skipDir = TRUE, !.pruned = TRUE]
                ELSE [t EXCEPT !.fatal = sg, !.pc = "idle", !.ended = "panic",
                               !.cur = NoCallback, !.stack = << >>]]
        /\ UNCHANGED <<ranger, fq, mq>>

\* r's loop body ends normally
TwoContinue(r) ==
    LET t == two[r] IN
    /\ t.pc = "offered"
    /\ two' = [two EXCEPT ![r] =
            ProceedOf(t, ConfigOf(r).tree, WalkDirReturn(TRUE, t.skipDir),
                      "exhausted")]
    /\ UNCHANGED <<ranger, fq, mq>>

\* r's consumer breaks out of the loop
TwoBreak(r) ==
    LET t == two[r] IN
    /\ r = "A"
    /\ t.pc = "offered"
    /\ two' = [two EXCEPT ![r] =
            ProceedOf(t, ConfigOf(r).tree, WalkDirReturn(FALSE, t.skipDir),
                      "break")]
    /\ UNCHANGED <<ranger, fq, mq>>

TwoNext ==
    \E r \in Rangers :
        \/ TwoNew(r)
        \/ TwoStart(r)
        \/ TwoVisit(r)
        \/ TwoSkipDir(r)
        \/ TwoContinue(r)
        \/ TwoBreak(r)

TwoSpec == Init /\ [][TwoNext]_vars

-----------------------------------------------------------------------------
(* Vocabulary of the properties *)

\* the provider's pre-order of the whole tree
PO == PreOrderFrom(Tree, Root)

IdxOf(sq, x) == CHOOSE k \in 1..Len(sq) : sq[k] = x

VisitedNodes == {visits[i].node : i \in 1..Len(visits)}

\* index in PO of the first node after PO[k] that is not beneath d, 0 if none
NextOutside(k, d) ==
    LET S == {j \in (k + 1)..Len(PO) : ~Beneath(PO[j], d)}
    IN  IF S = {} THEN 0 ELSE CHOOSE j \in S : \A m \in S : j <= m

\* after callback i the walk went on with PO[k], or ended if k = 0
GoesOnWith(i, k) ==
    IF k = 0
    THEN i = Len(visits) /\ pc = "idle"
    ELSE \/ i = Len(visits) /\ pc = "visit" /\ cur.node = PO[k] /\ ~skipDir
         \/ i < Len(visits) /\ visits[i + 1].node = PO[k] /\ ~visits[i + 1].flag

NoVisitBeneath(d) == \A j \in 1..Len(visits) : ~Beneath(visits[j].node, d)

DirExcludedNow(p, d) == DirFiltersExclude(excludeDirs, includeDirs, Entry(p, d))

FileExcludedNow(p, d) == FileFiltersExclude(excludeFiles, includeFiles, Entry(p, d))

-----------------------------------------------------------------------------
(* Properties *)

\* C1: once the consumer breaks out at an offered entry, the provider makes no
\* further callback: that entry's callback is the last of the traversal, it
\* returned fs.SkipAll, the walk is over, every node visited lies in the
\* pre-order prefix ending at that entry, and when no earlier callback
\* returned a skip the nodes visited are exactly that prefix.
C1_EarlyStopAborts ==
    \A i \in 1..Len(visits) :
        visits[i].reply = "break" =>
            LET k == IdxOf(PO, visits[i].node)
                prefix == {PO[j] : j \in 1..k}
            IN  /\ i = Len(visits)
                /\ pc = "idle"
                /\ cur = NoCallback
                /\ visits[i].disp = "SkipAll"
                /\ VisitedNodes \subseteq prefix
                /\ (\A j \in 1..(i - 1) : visits[j].disp = "nil")
                       => VisitedNodes = prefix

\* C1 witness: the consumer stopped at the third callback with nodes left
C1_Witness ==
    /\ Len(visits) = 3
    /\ visits[3].reply = "break"
    /\ IdxOf(PO, visits[3].node) < Len(PO)

\* C2: after the consumer broke out of any of the sequences the Ranger is not
\* traversing and the guards of walk let the next traversal begin, in every
\* round.
C2_BreakLeavesIdle ==
    (pc = "idle" /\ ended = "break") =>
        /\ ~isWalking
        /\ active = 0
        /\ WalkGuard(isWalking, erp) = "none"

\* C2 witness: in a second round, a break at the first element of a sequence
\* of files (Entries yielded the root, the consumer did not get it)
C2_Witness ==
    /\ rounds >= 2
    /\ pc = "idle"
    /\ ended = "break"
    /\ fatal = "none"
    /\ Len(visits) >= 2
    /\ visits[1].offered /\ ~visits[1].delivered
    /\ Cardinality({i \in 1..Len(visits) : visits[i].delivered}) = 1

\* C3: at most one traversal is active on the Ranger, and ranging over a
\* sequence from inside the loop body of a running traversal panics with
\* "already walking" before the provider makes any callback for it.
C3_OneTraversal ==
    /\ [](active <= 1)
    /\ [][(\E s \in SeqKinds : NestedStart(s)) =>
              /\ fatal' = "already walking"
              /\ visits' = visits
              /\ pc' # "visit"
              /\ lastErr' = lastErr]_vars

\* C3 witness: "already walking" raised from inside a loop body
C3_Witness ==
    /\ fatal = "already walking"
    /\ visits # << >>
    /\ Last(visits).reply = "pending"
    /\ pc = "idle"

\* C4: starting a traversal without an ErrorPolicy panics with "no error
\* policy set": no callback is made, isWalking stays false, and no policy
\* is invoked (the collector and the log are untouched).
C4_NoPolicyFatal ==
    [][(erp = "nil" /\ \E s \in SeqKinds : Start(s)) =>
           /\ fatal' = "no error policy set"
           /\ ~isWalking'
           /\ pc' = "idle"
           /\ visits' = visits
           /\ errs' = errs
           /\ lastErr' = lastErr]_vars

C4_Witness ==
    /\ erp = "nil"
    /\ fatal = "no error policy set"
    /\ rounds >= 1

\* C5: SkipDir called before the first traversal, or after a traversal was
\* exhausted, stopped early or halted, panics and leaves skipDir as it was.
C5_SkipDirOutsideFatal ==
    [][(IdleSkipDir /\ ended \in {"none", "exhausted", "break", "halt"}) =>
           /\ fatal' = "SkipDir called when not iterating"
           /\ skipDir' = skipDir]_vars

C5_Witness ==
    /\ fatal = "SkipDir called when not iterating"
    /\ ended = "halt"
    /\ ~skipDir

\* C6: when the consumer calls SkipDir on an offered file and goes on, the walk
\* goes on with the node that follows the file in the provider's pre-order,
\* as it does when SkipDir is not called.
C6_PruneFileNoOp ==
    \A i \in 1..Len(visits) :
        (visits[i].d = "file" /\ visits[i].pruned /\ visits[i].reply = "continue") =>
            LET k == IdxOf(PO, visits[i].node)
            IN  GoesOnWith(i, IF k < Len(PO) THEN k + 1 ELSE 0)

\* C7: whenever the provider is about to make a callback the skipDir flag is
\* false.
C7_FlagClearAtVisit == pc = "visit" => ~skipDir

\* C8: when the consumer calls SkipDir on an offered non-root directory and
\* goes on, walkDir returns fs.SkipDir, no node beneath the directory is
\* visited, the walk goes on with the first node after the directory's subtree,
\* and the flag is clear when that node is visited.
C8_PruneDir ==
    \A i \in 1..Len(visits) :
        (/\ visits[i].d = "dir"
         /\ visits[i].node # Root
         /\ visits[i].pruned
         /\ visits[i].reply = "continue") =>
            /\ visits[i].disp = "SkipDir"
            /\ NoVisitBeneath(visits[i].node)
            /\ GoesOnWith(i, NextOutside(IdxOf(PO, visits[i].node), visits[i].node))

\* C8 witness: a pruned directory that has entries, with a node visited after it
C8_Witness ==
    \E i \in 1..Len(visits) :
        /\ visits[i].d = "dir"
        /\ visits[i].node # Root
        /\ visits[i].pruned
        /\ visits[i].reply = "continue"
        /\ ChildSet(Tree, visits[i].node) # {}
        /\ i < Len(visits)

\* C9: a non-root directory whose visit succeeded and which the directory
\* filters exclude is not offered, walkDir returns fs.SkipDir for it, and no
\* node beneath it is visited.
C9_ExcludedDirPruned ==
    \A i \in 1..Len(visits) :
        (/\ visits[i].kind = "first"
         /\ visits[i].d = "dir"
         /\ visits[i].node # Root
         /\ DirExcludedNow(visits[i].node, "dir")) =>
            /\ ~visits[i].offered
            /\ ~visits[i].delivered
            /\ visits[i].disp = "SkipDir"
            /\ NoVisitBeneath(visits[i].node)
            /\ GoesOnWith(i, NextOutside(IdxOf(PO, visits[i].node), visits[i].node))

C9_Witness ==
    \E i \in 1..Len(visits) :
        /\ visits[i].kind = "first"
        /\ visits[i].d = "dir"
        /\ visits[i].node # Root
        /\ DirExcludedNow(visits[i].node, "dir")
        /\ ChildSet(Tree, visits[i].node) # {}
        /\ i < Len(visits)

\* C10 as stated: every successfully visited file that passes the file filters
\* is offered, whatever the directory filters return on the file's own Entry.
C10_Original ==
    \A i \in 1..Len(visits) :
        (/\ visits[i].kind = "first"
         /\ visits[i].d = "file"
         /\ ~FileExcludedNow(visits[i].node, "file")) =>
            visits[i].offered

\* C10 amended: every successfully visited file that passes the file filters
\* is offered if it does not lie directly in the root, whatever the directory
\* filters return on its own Entry; a file directly in the root is offered if
\* the directory filters do not exclude its own Entry.
C10_DeepFilesKept ==
    \A i \in 1..Len(visits) :
        (/\ visits[i].kind = "first"
         /\ visits[i].d = "file"
         /\ ~FileExcludedNow(visits[i].node, "file")
         /\ \/ PathDir(visits[i].node) # Root
            \/ ~DirExcludedNow(visits[i].node, "file")) =>
            visits[i].offered

\* C10 witness: a file beneath a subdirectory is offered although the
\* directory filters exclude its own Entry
C10_Witness ==
    \E i \in 1..Len(visits) :
        /\ visits[i].d = "file"
        /\ PathDir(visits[i].node) # Root
        /\ DirExcludedNow(visits[i].node, "file")
        /\ visits[i].offered

\* C11: when the directory filters exclude the root's own Entry, walkDir does
\* not return fs.SkipDir for the root and the walk goes on with the first
\* entry of the root; when the traversal is exhausted and the consumer pruned
\* nothing, every entry of the root was visited.
C11_RootNeverPruned ==
    \A i \in 1..Len(visits) :
        (/\ visits[i].kind = "first"
         /\ visits[i].node = Root
         /\ DirExcludedNow(Root, "dir")) =>
            /\ visits[i].disp # "SkipDir"
            /\ GoesOnWith(i, IF Len(PO) > 1 THEN 2 ELSE 0)
            /\ (/\ pc = "idle"
                /\ ended = "exhausted"
                /\ \A j \in 1..Len(visits) : ~visits[j].pruned)
                   => ChildSet(Tree, Root) \subseteq VisitedNodes

\* length of the collector slice after callback i
SinkAfter(i) == IF i < Len(visits) THEN visits[i + 1].sink0 ELSE Len(errs)

\* C12: the policy is invoked for a callback exactly when the callback carries
\* an error, with that error and that callback's Entry; under OnErrorCollect
\* the slice grows by one at an errored callback and not at all at any other
\* (one invocation per errored callback).
C12_PolicyOncePerError ==
    \A i \in 1..Len(visits) :
        /\ visits[i].policy <=> (visits[i].err # NoErr)
        /\ visits[i].policy =>
               /\ visits[i].perr = visits[i].err
               /\ visits[i].pentry = Entry(visits[i].node, visits[i].d)
        /\ erp = "OnErrorCollect" =>
               SinkAfter(i) = visits[i].sink0 + (IF visits[i].err # NoErr THEN 1 ELSE 0)

\* C12 witness: two errored callbacks with a successful one after them
C12_Witness ==
    /\ erp = "OnErrorCollect"
    /\ \E i, j, k \in 1..Len(visits) :
           /\ i < j /\ j < k
           /\ visits[i].policy /\ visits[j].policy
           /\ visits[i].perr # visits[j].perr
           /\ ~visits[k].policy
           /\ visits[k].err = NoErr

\* the policy returns false for the error of callback i
PolicyHalts(i) ==
    /\ visits[i].err # NoErr
    /\ LET r == PolicyResult(erp, visits[i].err,
                             Entry(visits[i].node, visits[i].d), << >>)
       IN  ~r.cont /\ ~r.panics

\* the policy returns true for the error of callback i
PolicyContinues(i) ==
    /\ visits[i].err # NoErr
    /\ LET r == PolicyResult(erp, visits[i].err,
                             Entry(visits[i].node, visits[i].d), << >>)
       IN  r.cont /\ ~r.panics

\* C13: when the policy returns false for an errored callback, that callback is
\* the last of the traversal: its entry is not offered, walkDir returns
\* fs.SkipAll, the provider makes no further callback, isWalking is cleared and
\* Err() returns that error.
C13_HaltEndsTraversal ==
    \A i \in 1..Len(visits) :
        PolicyHalts(i) =>
            /\ i = Len(visits)
            /\ ~visits[i].offered
            /\ ~visits[i].delivered
            /\ visits[i].disp = "SkipAll"
            /\ pc = "idle"
            /\ cur = NoCallback
            /\ ended = "halt"
            /\ ~isWalking
            /\ lastErr = visits[i].err
            /\ HasError(lastErr)

\* C13 witness: a halt after an entry was handed to the consumer
C13_Witness ==
    /\ Len(visits) >= 3
    /\ PolicyHalts(Len(visits))
    /\ visits[1].delivered
    /\ ended = "halt"
    /\ rounds = 2

\* C14: when the policy returns true for an errored callback, the entry is not
\* offered whatever the filters say of it, walkDir returns nil (neither
\* fs.SkipDir nor fs.SkipAll) and the provider goes on with its next node: the
\* entries listed for a directory whose ReadDir failed, nothing after a failed
\* Stat of the root.
C14_ContinueSkipsEntry ==
    \A i \in 1..Len(visits) :
        PolicyContinues(i) =>
            LET k == IdxOf(PO, visits[i].node)
            IN  /\ ~visits[i].offered
                /\ ~visits[i].delivered
                /\ visits[i].disp = "nil"
                /\ GoesOnWith(i, IF visits[i].kind = "stat" \/ k = Len(PO)
                                 THEN 0 ELSE k + 1)

\* C14 witness: an errored directory that every filter would let through is
\* passed over and the walk goes on inside it
C14_Witness ==
    \E i \in 1..Len(visits) :
        /\ PolicyContinues(i)
        /\ ~DirExcludedNow(visits[i].node, visits[i].d)
        /\ ~FileExcludedNow(visits[i].node, visits[i].d)
        /\ i < Len(visits)
        /\ Beneath(visits[i + 1].node, visits[i].node)

\* the errors of the errored callbacks made so far, in the order of the callbacks
VisitErrors ==
    LET F[i \in 0..Len(visits)] ==
            IF i = 0 THEN << >>
            ELSE IF visits[i].err # NoErr THEN Append(F[i - 1], visits[i].err)
            ELSE F[i - 1]
    IN  F[Len(visits)]

\* C15: with OnErrorCollect no callback is answered with fs.SkipAll unless the
\* consumer broke out, the traversal never ends by a halt, and what was appended
\* to the slice since the traversal began is the errors of its errored
\* callbacks, one each, in the order of the callbacks.
C15_CollectKeepsOrder ==
    (erp = "OnErrorCollect" /\ visits # << >>) =>
        /\ ended # "halt"
        /\ \A i \in 1..Len(visits) :
               visits[i].disp = "SkipAll" => visits[i].reply = "break"
        /\ visits[1].sink0 <= Len(errs)
        /\ SubSeq(errs, visits[1].sink0 + 1, Len(errs)) = VisitErrors

\* C15 witness: a second traversal ran to its end and collected two different
\* errors after those of the first traversal
C15_Witness ==
    /\ erp = "OnErrorCollect"
    /\ pc = "idle"
    /\ ended = "exhausted"
    /\ visits # << >>
    /\ visits[1].sink0 > 0
    /\ Len(VisitErrors) = 2
    /\ VisitErrors[1] # VisitErrors[2]

\* C16: with OnErrPermissionIgnore a callback whose error is fs.ErrPermission
\* is passed over (not offered, walkDir returns nil) and the walk goes on; a
\* callback with any other error is the last of the traversal, which ends by a
\* halt with that error returned by Err().
C16_PermissionIgnore ==
    erp = "OnErrPermissionIgnore" =>
        \A i \in 1..Len(visits) :
            /\ visits[i].err = ErrPermission =>
                   LET k == IdxOf(PO, visits[i].node)
                   IN  /\ ~visits[i].offered
                       /\ visits[i].disp = "nil"
                       /\ GoesOnWith(i, IF visits[i].kind = "stat" \/ k = Len(PO)
                                        THEN 0 ELSE k + 1)
            /\ visits[i].err \notin {NoErr, ErrPermission} =>
                   /\ i = Len(visits)
                   /\ ~visits[i].offered
                   /\ visits[i].disp = "SkipAll"
                   /\ pc = "idle"
                   /\ ended = "halt"
                   /\ lastErr = visits[i].err

\* C16 witness: in a tree that also holds a directory failing with another
\* error (pruned here), an unreadable directory is passed over and the walk
\* goes on to the file after it, which the consumer gets
C16_Witness ==
    /\ erp = "OnErrPermissionIgnore"
    /\ \E d \in Tree.dirs : Tree.rderr[d] = ErrIO
    /\ \E i \in 1..Len(visits) :
           /\ visits[i].err = ErrPermission
           /\ i < Len(visits)
           /\ visits[i + 1].delivered
           /\ visits[i + 1].reply = "continue"

\* a traversal ended by exhaustion or by the consumer's break, its log at hand
EndedNormally ==
    /\ pc = "idle"
    /\ visits # << >>
    /\ ended \in {"exhausted", "break"}

C18_NoErrorAfterIgnoring ==
    (/\ pc = "idle"
     /\ visits # << >>
     /\ ended = "exhausted"
     /\ erp \in {"OnErrorIgnore", "OnErrorCollect", "OnErrPermissionIgnore"}
     /\ \A i \in 1..Len(visits) : visits[i].err # NoErr => PolicyContinues(i)) =>
        /\ lastErr = NoErr
        /\ ~HasError(lastErr)

\* C19: the entries offered (and those the consumer gets) follow the provider's
\* pre-order: of two offered callbacks the earlier one has the node that comes
\* first in the pre-order, so no node is offered twice, and an offered
\* directory is offered before every offered entry beneath it.
C19_OfferedInPreOrder ==
    LET po == PO
        at == [i \in 1..Len(visits) |-> IdxOf(po, visits[i].node)]
    IN  \A i, j \in 1..Len(visits) :
            /\ (i < j /\ visits[i].offered /\ visits[j].offered) => at[i] < at[j]
            /\ (/\ visits[i].offered /\ visits[j].offered
                /\ Beneath(visits[j].node, visits[i].node)) => i < j
            /\ visits[i].delivered => visits[i].offered

\* C19 witness: a directory and an entry beneath it were offered, with a
\* callback between them that offered nothing
C19_Witness ==
    \E i, m, j \in 1..Len(visits) :
        /\ i < m /\ m < j
        /\ visits[i].offered /\ visits[i].d = "dir" /\ visits[i].node # Root
        /\ ~visits[m].offered
        /\ visits[j].offered
        /\ Beneath(visits[j].node, visits[i].node)

RECURSIVE RunOf(_, _, _, _, _)
\* what sequence s of a Ranger configured as g (tree, policy, filters) hands to a
\* consumer that takes every element and never calls SkipDir, from the
\* provider's callback c on (acc: what it handed over so far)
RunOf(s, g, c, st, acc) ==
    IF c.kind = "none" THEN acc
    ELSE LET a == CallbackArgs(g.tree, c)
             w == WalkDirStore(c.node, a.d, a.err, NoErr)
             e == Entry(w.Path, w.DirEntry)
             b == EntriesBody(e, w.lastErr, g.erp, g.excludeDirs, g.includeDirs,
                              g.excludeFiles, g.includeFiles, << >>)
             r == WalkDirReturn(TRUE, b.skip)
             n == ProviderNext(g.tree, st, c, r.disp)
         IN  IF b.act \in {"panic", "halt"} THEN acc
             ELSE RunOf(s, g, n.cur, n.stack,
                        IF b.act = "yield" /\ Delivers(s, e)
                        THEN Append(acc, Project(s, e)) ELSE acc)

\* the Ranger's present tree, policy and filters
Present ==
    [tree |-> Tree, erp |-> erp,
     excludeDirs |-> excludeDirs, includeDirs |-> includeDirs,
     excludeFiles |-> excludeFiles, includeFiles |-> includeFiles]

\* the same under the Ranger's present tree, filters and policy
Run(s, c, st, acc) == RunOf(s, Present, c, st, acc)

YieldsOf(s, g) == RunOf(s, g, FirstCallback(g.tree), << >>, << >>)

Yields(s) == Run(s, FirstCallback(Tree), << >>, << >>)

\* what the consumer of the running traversal was handed so far
DeliveredSoFar ==
    LET F[i \in 0..Len(visits)] ==
            IF i = 0 THEN << >>
            ELSE IF visits[i].delivered
                 THEN Append(F[i - 1], Project(seq, Entry(visits[i].node, visits[i].d)))
                 ELSE F[i - 1]
    IN  F[Len(visits)]

\* C20: under the Ranger's tree, filters and policy, FileEntries yields the
\* non-directory entries of Entries in the same order, Files their (path,
\* DirEntry) pairs, FilePaths their paths, and FilesAndDirs the (path,
\* DirEntry) pairs of all entries of Entries; no yielded entry has a nil
\* DirEntry (Files calls IsDir on it).  Whenever a running traversal hands an
\* element to a consumer that pruned nothing, what it handed over so far is a
\* prefix of that list.
C20_DerivedSequences ==
    /\ (pc = "visit" /\ visits = << >>) =>
           LET all   == Yields("Entries")
               files == SelectSeq(all, LAMBDA e : ~IsDir(e))
           IN  /\ Yields("FilesAndDirs") =
                      [i \in 1..Len(all) |-> <<all[i].Path, all[i].DirEntry>>]
               /\ Yields("FileEntries") = files
               /\ Yields("Files") =
                      [i \in 1..Len(files) |-> <<files[i].Path, files[i].DirEntry>>]
               /\ Yields("FilePaths") = [i \in 1..Len(files) |-> files[i].Path]
               /\ \A i \in 1..Len(all) : all[i].DirEntry # "nil"
    /\ (/\ pc = "offered"
        /\ ~visits[1].flag
        /\ \A i \in 1..Len(visits) : ~visits[i].pruned) =>
           IsPrefix(DeliveredSoFar, Yields(seq))

\* C20 witness: a traversal by FilePaths begins under a filter that is not the
\* default, where Entries yields directories and files and would hand over more
\* than FilePaths does
C20_Witness ==
    /\ pc = "visit"
    /\ visits = << >>
    /\ seq = "FilePaths"
    /\ excludeFiles = "MatchGlobName"
    /\ Len(Yields("FilePaths")) >= 2
    /\ Len(Yields("Entries")) > Len(Yields("FilePaths"))

\* C21 as stated: a successfully visited file is offered exactly when Include
\* returns true and Exclude returns false for it.
C21_Original ==
    \A i \in 1..Len(visits) :
        (visits[i].kind = "first" /\ visits[i].d = "file") =>
            (visits[i].offered <=>
                 /\ Apply(includeFiles, Entry(visits[i].node, "file"))
                 /\ ~Apply(excludeFiles, Entry(visits[i].node, "file")))

\* C21 amended: a successfully visited file is offered exactly when Include
\* returns true and Exclude returns false for it and, if it lies directly in
\* the root, the directory filters do not exclude its own Entry; with the four
\* default filters every visited file is offered.
C21_FileFiltersDecide ==
    \A i \in 1..Len(visits) :
        (visits[i].kind = "first" /\ visits[i].d = "file") =>
            /\ visits[i].offered <=>
                   /\ Apply(includeFiles, Entry(visits[i].node, "file"))
                   /\ ~Apply(excludeFiles, Entry(visits[i].node, "file"))
                   /\ \/ PathDir(visits[i].node) # Root
                      \/ ~DirExcludedNow(visits[i].node, "file")
            /\ (/\ includeFiles = "includeAll" /\ excludeFiles = "excludeNone"
                /\ includeDirs = "includeAll" /\ excludeDirs = "excludeNone")
                   => visits[i].offered

\* C21 witness: a file matched by both Include and Exclude is withheld, and a
\* file matched by neither filter's exclusion is offered, in one traversal
C21_Witness ==
    /\ includeFiles = "MatchGlobName"
    /\ excludeFiles = "MatchGlobName"
    /\ \E i \in 1..Len(visits) :
           /\ visits[i].kind = "first" /\ visits[i].d = "file"
           /\ Apply(includeFiles, Entry(visits[i].node, "file"))
           /\ ~visits[i].offered

\* C22 as stated: a successfully visited directory that the directory filters
\* do not exclude is yielded by Entries whatever Include and Exclude return.
C22_Original ==
    \A i \in 1..Len(visits) :
        (/\ visits[i].kind = "first" /\ visits[i].d = "dir"
         /\ ~DirExcludedNow(visits[i].node, "dir")) =>
            visits[i].offered

\* C22 amended: a successfully visited directory that the directory filters do
\* not exclude is yielded by Entries exactly when Include returns true and
\* Exclude returns false for it; a non-root directory withheld by the file
\* filters is not pruned: walkDir returns nil and the walk goes on inside it.
C22_DirsPassFileFilters ==
    \A i \in 1..Len(visits) :
        (/\ visits[i].kind = "first" /\ visits[i].d = "dir"
         /\ ~DirExcludedNow(visits[i].node, "dir")) =>
            /\ visits[i].offered <=> ~FileExcludedNow(visits[i].node, "dir")
            /\ (~visits[i].offered /\ visits[i].node # Root) =>
                   /\ visits[i].disp = "nil"
                   /\ i < Len(visits) \/ pc = "visit"

\* C22 witness: a directory withheld by the file filters, and an entry beneath
\* it offered afterwards
C22_Witness ==
    \E i, j \in 1..Len(visits) :
        /\ i < j
        /\ visits[i].kind = "first" /\ visits[i].d = "dir"
        /\ ~DirExcludedNow(visits[i].node, "dir")
        /\ FileExcludedNow(visits[i].node, "dir")
        /\ ~visits[i].offered
        /\ Beneath(visits[j].node, visits[i].node)
        /\ visits[j].offered

\* the entries Entries yielded so far in the traversal
OfferedSoFar ==
    LET F[i \in 0..Len(visits)] ==
            IF i = 0 THEN << >>
            ELSE IF visits[i].offered
                 THEN Append(F[i - 1], Entry(visits[i].node, visits[i].d))
                 ELSE F[i - 1]
    IN  F[Len(visits)]

\* C23: a traversal started after an earlier one ended visits the root first
\* and, when it runs to its end with a consumer that prunes nothing, Entries
\* yields in it exactly what it yields on a Ranger just made by New with the
\* same tree, filters and policy.
C23_RestartIsFresh ==
    (rounds >= 2 /\ visits # << >>) =>
        /\ visits[1].node = Root
        /\ (/\ pc = "idle"
            /\ ended = "exhausted"
            /\ \A i \in 1..Len(visits) : ~visits[i].pruned) =>
               OfferedSoFar = Yields("Entries")

\* C24: the provider makes a callback only when no handed-over entry awaits the
\* consumer's answer: an entry under consideration is that of the last
\* callback and the provider still stands at it, and every entry handed over
\* before the last callback was answered by going on.
C24_DemandDriven ==
    /\ \A i \in 1..Len(visits) :
           /\ visits[i].reply = "pending" =>
                  /\ i = Len(visits)
                  /\ \/ pc = "offered" /\ cur.node = visits[i].node
                                       /\ cur.kind = visits[i].kind
                     \/ pc = "idle" /\ ended = "panic"
           /\ (visits[i].delivered /\ i < Len(visits)) =>
                  visits[i].reply = "continue"
    /\ pc = "offered" =>
           /\ visits # << >>
           /\ Last(visits).delivered
           /\ Last(visits).reply = "pending"

\* C24 witness: the consumer considers the third element it was handed while
\* the provider has nodes left and has visited none of them
C24_Witness ==
    /\ pc = "offered"
    /\ Cardinality({i \in 1..Len(visits) : visits[i].delivered}) = 3
    /\ IdxOf(PO, Last(visits).node) < Len(PO)
    /\ \A k \in (IdxOf(PO, Last(visits).node) + 1)..Len(PO) : PO[k] \notin VisitedNodes

\* C30: for a callback made without a DirEntry (the root whose Stat failed)
\* IsDir is false on the Entry, the policy is invoked with that Entry and its
\* error, the Entry is not offered, and unless the policy itself panics the
\* callback ends as any errored one does: walkDir returns nil or fs.SkipAll and
\* the traversal ends by exhaustion or halt, without a panic.
C30_NilDirEntry ==
    \A i \in 1..Len(visits) :
        visits[i].d = "nil" =>
            /\ ~IsDir(Entry(visits[i].node, visits[i].d))
            /\ visits[i].err # NoErr
            /\ visits[i].policy
            /\ visits[i].pentry.DirEntry = "nil"
            /\ ~IsDir(visits[i].pentry)
            /\ ~visits[i].offered
            /\ erp # "OnErrorPanic" =>
                   /\ visits[i].disp = (IF PolicyContinues(i) THEN "nil" ELSE "SkipAll")
                   /\ pc = "idle"
                   /\ ended = (IF PolicyContinues(i) THEN "exhausted" ELSE "halt")
                   /\ ~isWalking

\* C30 witness: a root that could not be stat'ed, under a policy that halts
C30_Witness ==
    /\ visits # << >>
    /\ visits[1].d = "nil"
    /\ visits[1].kind = "stat"
    /\ erp = "OnErrorHalt"
    /\ ended = "halt"
    /\ rounds = 2

\* the values the filters of a call return for its Entry, in argument order
Verdicts == [k \in 1..Len(fq.filters) |-> Apply(fq.filters[k], fq.e)]

\* the position of the first filter returning v, Len + 1 if none does
FirstOf(v) ==
    IF \E k \in 1..Len(fq.filters) : Verdicts[k] = v
    THEN CHOOSE k \in 1..Len(fq.filters) :
             Verdicts[k] = v /\ \A j \in 1..(k - 1) : Verdicts[j] # v
    ELSE Len(fq.filters) + 1

\* C26: And(f1..fn)(e) returns true exactly when every fi returns true for e
\* (so true for no filters); it calls the filters from the first on, each once,
\* and none after the first that returned false.
C26_And ==
    fq.op = "And" =>
        /\ fq.calls = [k \in 1..Len(fq.calls) |-> k]
        /\ Len(fq.calls) <= FirstOf(FALSE)
        /\ Len(fq.calls) <= Len(fq.filters)
        /\ fq.done =>
               /\ fq.ret = (\A k \in 1..Len(fq.filters) : Verdicts[k])
               /\ fq.filters = << >> => fq.ret
               /\ Len(fq.calls) = (IF fq.ret THEN Len(fq.filters) ELSE FirstOf(FALSE))

\* C26 witness: And of three filters returned false at the second, the third
\* never called
C26_Witness ==
    /\ fq.op = "And"
    /\ fq.done
    /\ Len(fq.filters) = 3
    /\ Verdicts = <<TRUE, FALSE, TRUE>>
    /\ fq.calls = <<1, 2>>
    /\ ~fq.ret

\* C27: Or(f1..fn)(e) returns true exactly when some fi returns true for e (so
\* false for no filters); it calls the filters from the first on, each once,
\* and none after the first that returned true.
C27_Or ==
    fq.op = "Or" =>
        /\ fq.calls = [k \in 1..Len(fq.calls) |-> k]
        /\ Len(fq.calls) <= FirstOf(TRUE)
        /\ Len(fq.calls) <= Len(fq.filters)
        /\ fq.done =>
               /\ fq.ret = (\E k \in 1..Len(fq.filters) : Verdicts[k])
               /\ fq.filters = << >> => ~fq.ret
               /\ Len(fq.calls) = (IF fq.ret THEN FirstOf(TRUE) ELSE Len(fq.filters))

\* C27 witness: Or of three filters returned true at the second, the third
\* never called
C27_Witness ==
    /\ fq.op = "Or"
    /\ fq.done
    /\ Len(fq.filters) = 3
    /\ Verdicts = <<FALSE, TRUE, FALSE>>
    /\ fq.calls = <<1, 2>>
    /\ fq.ret

\* a Ranger on the present tree with the present policy and the default
\* filters, but for exF as Exclude's and inF as Include's
WithFileFilters(exF, inF) ==
    [tree |-> Tree, erp |-> erp,
     excludeDirs |-> "excludeNone", includeDirs |-> "includeAll",
     excludeFiles |-> exF, includeFiles |-> inF]

\* C28: Not(f)(e) is the negation of f(e) and Not(Not(f))(e) is f(e), for every
\* filter f and Entry e; a Ranger given Include(Not(g)) offers by each of its
\* sequences what the Ranger given Exclude(g) offers.
C28_Not ==
    /\ fq.op = "Not" =>
           /\ fq.ret = ~Apply(fq.filters[1], fq.e)
           /\ \A s \in SeqKinds :
                  YieldsOf(s, WithFileFilters("excludeNone", Not(fq.filters[1])))
                      = YieldsOf(s, WithFileFilters(fq.filters[1], "includeAll"))
    /\ fq.op = "NotNot" => fq.ret = Apply(fq.filters[1], fq.e)

\* C28 witness: Not of a glob filter returned true for an entry the glob does
\* not match, on a tree where Exclude of that glob withholds some files and
\* leaves others
C28_Witness ==
    /\ fq.op = "Not"
    /\ fq.filters = <<"MatchGlobName">>
    /\ fq.ret
    /\ fq.e.DirEntry = "file"
    /\ LET with    == YieldsOf("Files", WithFileFilters("excludeNone", Not("MatchGlobName")))
           without == YieldsOf("Files", WithFileFilters("excludeNone", "includeAll"))
       IN  with # << >> /\ Len(with) < Len(without)

\* C29: Dir() of an Entry that is a directory is the Entry's own path; Dir() of
\* any other Entry is the parent of its path: the path less its last element,
\* the directory of the tree the Entry lies in.
C29_Dir ==
    fq.op = "Dir" =>
        IF fq.e.DirEntry = "dir"
        THEN fq.dir = fq.e.Path
        ELSE /\ fq.dir = PathDir(fq.e.Path)
             /\ fq.e.Path # Root =>
                    /\ Append(fq.dir, Last(fq.e.Path)) = fq.e.Path
                    /\ fq.dir \in Tree.dirs
                    /\ fq.e.Path \in ChildSet(Tree, fq.dir)

\* C29 witness: Dir() was called on a directory below the root, whose parent is
\* another path than its own
C29_Witness ==
    /\ fq.op = "Dir"
    /\ fq.e.DirEntry = "dir"
    /\ Len(fq.e.Path) = 2
    /\ fq.dir = fq.e.Path
    /\ PathDir(fq.e.Path) # fq.e.Path

RECURSIVE LastErrFrom(_, _, _, _)
\* tr.lastErr when a traversal of a Ranger configured as g ends, run from the
\* provider's callback c on by a consumer that takes every element and never
\* calls SkipDir (le: tr.lastErr before c)
LastErrFrom(g, c, st, le) ==
    IF c.kind = "none" THEN le
    ELSE LET a == CallbackArgs(g.tree, c)
             w == WalkDirStore(c.node, a.d, a.err, le)
             e == Entry(w.Path, w.DirEntry)
             b == EntriesBody(e, w.lastErr, g.erp, g.excludeDirs, g.includeDirs,
                              g.excludeFiles, g.includeFiles, << >>)
             r == WalkDirReturn(TRUE, b.skip)
             n == ProviderNext(g.tree, st, c, r.disp)
         IN  IF b.act \in {"panic", "halt"} THEN w.lastErr
             ELSE LastErrFrom(g, n.cur, n.stack, w.lastErr)

\* C25: with the steps of traversals on two Rangers interleaved in any order
\* (one started while the other's consumer holds an entry included), a Ranger
\* raises 'already walking' only after a panic in its own traversal, has its
\* skipDir flag set only by its own consumer, and, its consumer calling no
\* SkipDir, offers a prefix of what it offers when run alone, all of it when
\* its traversal ends otherwise than by break, and ends with isWalking and
\* skipDir clear and the last error it ends with alone.
C25_Independent ==
    \A r \in Rangers :
        LET t     == two[r]
            alone == YieldsOf("Entries", ConfigOf(r))
        IN  /\ t.fatal = "already walking" => t.ended = "panic"
            /\ t.skipDir => t.pruned
            /\ (~t.pruned /\ t.pc = "offered") => IsPrefix(t.offered, alone)
            /\ (~t.pruned /\ t.ended \in {"exhausted", "halt"}) =>
                   /\ t.offered = alone
                   /\ ~t.isWalking
                   /\ ~t.skipDir
                   /\ t.lastErr = LastErrFrom(ConfigOf(r),
                                      FirstCallback(ConfigOf(r).tree), << >>, NoErr)
            /\ t.ended = "break" =>
                   /\ ~t.isWalking
                   /\ t.lastErr = NoErr

\* C25 witness: the consumers of A and of B both hold an entry, neither the
\* first of its traversal: B's traversal, over another tree than A's, runs
\* inside a loop body of A's second one
C25_Witness ==
    /\ two["A"].pc = "offered"
    /\ two["B"].pc = "offered"
    /\ two["A"].starts = 2
    /\ Len(two["A"].offered) >= 2
    /\ Len(two["B"].offered) >= 2
    /\ two["B"].other
    /\ ~two["A"].other
    /\ ~two["A"].pruned

\* C34: a callback without error for an entry whose Dir() is the root (the root
\* itself or a file directly in it), which the directory filters evaluated on
\* the entry's own Entry exclude, is not offered, and Entries calls no SkipDir
\* for it: walkDir returns fs.SkipDir only if the flag was set before the
\* callback, and the callbacks for the root's other children follow.
C34_RootLevelWithheld ==
    \A i \in 1..Len(visits) :
        LET e == Entry(visits[i].node, visits[i].d) IN
        (/\ visits[i].err = NoErr
         /\ Dir(e) = Root
         /\ Apply(excludeDirs, e) \/ ~Apply(includeDirs, e)) =>
            /\ ~visits[i].offered
            /\ ~visits[i].policy
            /\ visits[i].disp \in {"nil", "SkipDir"}
            /\ visits[i].disp = "SkipDir" => visits[i].flag
            /\ (visits[i].disp = "nil" /\ i < Len(visits)) =>
                   visits[i + 1].node \in ChildSet(Tree, Root)

\* C34 witness: under IncludeDir of a glob the root and a file directly in it,
\* neither matching by its own name, were withheld without a prune, and a file
\* directly in the root that matches by its own name was offered
C34_Witness ==
    /\ includeDirs = "MatchGlobName"
    /\ excludeDirs = "excludeNone"
    /\ ended = "exhausted"
    /\ Len(visits) >= 3
    /\ visits[1].node = Root /\ ~visits[1].offered /\ visits[1].disp = "nil"
    /\ \E i \in 2..Len(visits) :
           /\ visits[i].d = "file" /\ Len(visits[i].node) = 1
           /\ ~visits[i].offered /\ visits[i].disp = "nil"
    /\ \E i \in 2..Len(visits) :
           /\ visits[i].d = "file" /\ Len(visits[i].node) = 1
           /\ visits[i].offered

\* C35: a directory visited without error that passes the directory filters
\* and is withheld by the file filters is not pruned: walkDir returns nil for
\* it, and the next callback is for its first child (or, its listing having
\* failed, the second one for the directory itself).
C35_FileFiltersNeverPrune ==
    \A i \in 1..Len(visits) :
        LET e == Entry(visits[i].node, visits[i].d) IN
        (/\ visits[i].err = NoErr
         /\ IsDir(e)
         /\ ~(Apply(excludeDirs, e) \/ ~Apply(includeDirs, e))
         /\ Apply(excludeFiles, e) \/ ~Apply(includeFiles, e)) =>
            /\ ~visits[i].offered
            /\ visits[i].disp = "nil"
            /\ (i < Len(visits) /\ Tree.rderr[visits[i].node] # NoErr) =>
                   /\ visits[i + 1].node = visits[i].node
                   /\ visits[i + 1].kind = "readdir"
            /\ (/\ i < Len(visits)
                /\ Tree.rderr[visits[i].node] = NoErr
                /\ ChildSet(Tree, visits[i].node) # {}) =>
                   visits[i + 1].node \in ChildSet(Tree, visits[i].node)

\* C36: Entries decides on the error first, then on the directory filters, then
\* on the file filters, then offers.  A callback with an error reaches the
\* policy with its Entry and error whatever the filters say of that Entry, is
\* not offered and is not pruned by a filter; a callback without error never
\* reaches the policy; a directory below the root that the directory filters
\* exclude is pruned whatever the file filters say of it; and an offered entry
\* has no error and passes the directory switch and the file filters.
C36_DecisionOrder ==
    \A i \in 1..Len(visits) :
        LET e   == Entry(visits[i].node, visits[i].d)
            exD == Apply(excludeDirs, e) \/ ~Apply(includeDirs, e)
            exF == Apply(excludeFiles, e) \/ ~Apply(includeFiles, e)
        IN  /\ visits[i].err # NoErr =>
                   /\ visits[i].policy
                   /\ visits[i].pentry = e
                   /\ visits[i].perr = visits[i].err
                   /\ ~visits[i].offered
                   /\ visits[i].disp \in {"nil", "SkipAll", "panic"}
            /\ visits[i].err = NoErr => ~visits[i].policy
            /\ (visits[i].err = NoErr /\ IsDir(e) /\ e.Path # Root /\ exD) =>
                   /\ ~visits[i].offered
                   /\ visits[i].disp = "SkipDir"
            /\ visits[i].offered =>
                   /\ visits[i].err = NoErr
                   /\ ~exF
                   /\ (IsDir(e) \/ Dir(e) = Root) => ~exD

\* C36 witness: a callback with an error for a directory that the file filters
\* exclude reached the policy, which let the walk go on
C36_Witness ==
    \E i \in 1..Len(visits) :
        LET e == Entry(visits[i].node, visits[i].d) IN
        /\ visits[i].err # NoErr
        /\ visits[i].d = "dir"
        /\ Apply(excludeFiles, e) \/ ~Apply(includeFiles, e)
        /\ visits[i].policy
        /\ visits[i].disp = "nil"
        /\ i < Len(visits)

\* The Ranger with a provider that goes on with its walk and a consumer whose
\* loop body comes to an end (normally, by break or by a panic).  Of the
\* mutators only ExcludeDir is called between traversals, with a glob.
LiveNext ==
    \/ ExcludeDir("MatchGlobName")
    \/ \E s \in SeqKinds : Start(s)
    \/ \E s \in SeqKinds : NestedStart(s)
    \/ Visit
    \/ ConsumerSkipDir
    \/ ConsumerContinue
    \/ ConsumerBreak
    \/ ConsumerPanic
    \/ IdleSkipDir

LiveSpec ==
    /\ Init
    /\ [][LiveNext]_vars
    /\ WF_vars(Visit)
    /\ WF_vars(ConsumerContinue \/ ConsumerBreak \/ ConsumerPanic)

NormalEnds == {"exhausted", "break", "halt"}

\* C37: every traversal ends; unless a panic left it, it ends by exhaustion,
\* early stop or halt and isWalking is false then.  The policy panics only if
\* it is OnErrorPanic.
C37_TraversalEnds ==
    (pc # "idle") ~>
        /\ pc = "idle"
        /\ ended \in NormalEnds \cup {"panic"}
        /\ ended \in NormalEnds => ~isWalking
        /\ ended = "panic" => fatal # "none"
        /\ fatal = "policy panic" => erp = "OnErrorPanic"

\* C37 witness: a second traversal, under a directory filter that pruned a
\* directory, ran over several nodes and ended by exhaustion, isWalking false
C37_Witness ==
    /\ pc = "idle"
    /\ ended = "exhausted"
    /\ rounds = 2
    /\ excludeDirs = "MatchGlobName"
    /\ Len(visits) >= 4
    /\ \E i \in 1..Len(visits) : visits[i].disp = "SkipDir"
    /\ ~isWalking

\* C38: isWalking is false whenever no traversal of the Ranger is running,
\* also after a panic of the policy or of the consumer left a traversal (so
\* that walk's guard lets the next traversal begin).
C38_FlagOnlyWhileWalking ==
    (pc = "idle" /\ active = 0) => ~isWalking

\* C39: when the consumer calls SkipDir on the offered root and goes on,
\* walkDir returns fs.SkipDir for the root, no other callback is made, the
\* traversal ends by exhaustion, and skipDir and isWalking are false after it.
C39_PruneRoot ==
    (/\ visits # << >>
     /\ visits[1].node = Root
     /\ visits[1].pruned
     /\ visits[1].reply = "continue") =>
        /\ visits[1].disp = "SkipDir"
        /\ Len(visits) = 1
        /\ pc = "idle"
        /\ active = 0
        /\ ended = "exhausted"
        /\ ~skipDir
        /\ ~isWalking

\* C39 witness: the root of a tree with directories and files beneath it was
\* pruned by the consumer
C39_Witness ==
    /\ visits # << >>
    /\ visits[1].node = Root
    /\ visits[1].pruned
    /\ visits[1].reply = "continue"
    /\ ~visits[1].flag
    /\ Cardinality(Nodes(Tree)) >= 5
    /\ ended = "exhausted"

\* C31: MatchExtension(exts...) returns false for every directory, whatever its
\* name; for any other Entry it returns true exactly when the extension of the
\* path, its dot included, equals one of exts without regard to case.
C31_MatchExtension ==
    mq.op = "MatchExtension" =>
        IF IsDir(mq.e) THEN ~mq.ret
        ELSE mq.ret = (\E k \in 1..Len(mq.args) :
                           ToLower(mq.args[k]) = ToLower(Ext(mq.e)))

\* C32: MatchDotFile(e) is true exactly when the base name of e's path begins
\* with a dot and is not the single dot.
C32_MatchDotFile ==
    mq.op = "MatchDotFile" =>
        mq.ret = (HasPrefix(Base(mq.e), <<".">>) /\ Base(mq.e) # <<".">>)

\* C33: a glob filter returns true exactly when one of its patterns is
\* well-formed and matches (the path for MatchGlobPath, the name for
\* MatchGlobName); a malformed pattern counts as not matching, wherever it
\* stands in the list, and the filter always returns.
C33_MalformedGlob ==
    mq.op \in {"MatchGlobPath", "MatchGlobName"} =>
        /\ mq.i <= Len(mq.args) + 1
        /\ mq.done =>
               mq.ret = (\E k \in 1..Len(mq.args) :
                             /\ ~Malformed(mq.args[k])
                             /\ GlobMatch(mq.args[k], Subject(mq)))

\* C33 witness: a glob filter whose first pattern is malformed returned true
\* by its second
C33_Witness ==
    /\ mq.op = "MatchGlobName"
    /\ mq.done
    /\ mq.ret
    /\ Len(mq.args) = 2
    /\ Malformed(mq.args[1])
    /\ ~Malformed(mq.args[2])
    /\ Len(mq.name) = 2

====
